---- MODULE Spec2Model ----
(***************************************************************************)
(* Verification model of the manga-translator backend (src/server):        *)
(*   - translate.py: the batch planner, the shared rate limiter, the       *)
(*     provider retry loops and the orchestrator translate_groups_kr_to_en *)
(*   - grouping.py: group_words and its merge pass                         *)
(*                                                                         *)
(* Conventions.                                                            *)
(*   Time is an integer number of units, UnitsPerSecond units to a second, *)
(*   chosen so that 1.2 s and 3 s * 1.5^6 are whole numbers.               *)
(*   A text is a record [kind, of]: the source text of group `of`          *)
(*   ("kr"), the translation a provider returned for id `of` ("en"), the   *)
(*   empty string ("empty") or JSON null ("none").  Group ids are the      *)
(*   numbers i of the strings "g_<i>" that group_words produces.           *)
(***************************************************************************)
EXTENDS Integers, Sequences, FiniteSets, TLC

VARIABLES
    \* ---- one translate_groups_kr_to_en call (the request thread) ----
    groups,            \* the groups argument, in caller order
    groups_list,       \* _order_groups_left_to_right(list(groups))
    batches,           \* what _batched_groups(groups_list) yields, in order
    planner,           \* the _batched_groups generator, run step by step
    phase,             \* position of the pure-function specifications
    config,            \* environment: TRANSLATOR_PROVIDER and the credentials
    translator,        \* _translator_instance ("none" until selected)
    batch_index,       \* index of the batch being processed (1-based)
    attempt,           \* the retry loop's attempt (0-based, as in the code)
    delay,             \* the retry loop's delay, in time units
    retry_hint,        \* Retry-After hint of the failure being slept on
    translations,      \* the current batch's result as the orchestrator has it
    all_translations,  \* the mapping the call builds and returns
    batch_log,         \* per finished batch: did it fail, and its response
    calls,             \* network calls issued for the current batch
    sleeps,            \* backoff sleeps taken for the current batch
    transient,         \* transient failures seen for the current batch
    malformed,         \* malformed responses seen for the current batch
    faults,            \* failed attempts seen in the whole call
    last_outcome,      \* what the latest network call came back with
    \* ---- shared by all threads ----
    pc,                \* each thread's position
    gated,             \* the thread's pending call acquired the rate limiter
    now,               \* each thread's local `now` in _respect_rate_limit
    wake,              \* each sleeping thread's wake-up time
    lock,              \* holder of _rate_limit_lock (0: free)
    _last_api_call,    \* translate.py 52
    clock,             \* time.monotonic()
    stamps,            \* every value recorded into _last_api_call, in order
    \* ---- one group_words call ----
    words,             \* the OCR words, each a 4-point polygon
    height_med2,       \* twice median(heights); radius = 1.4 * median
    clusters,          \* the first-pass groups handed to the merge pass
    pending,           \* the sorted groups the merge loop has yet to visit
    merged,            \* the merge pass's accumulator list
    result,            \* what group_words returns
    \* ---- one ContextStore on one path ----
    store_pc,          \* "down", "ready", "replacing" (inside _persist), "raised"
    _data,             \* ContextStore._data: conversation id -> history
    _max_entries,      \* ContextStore._max_entries
    _max_context_return, \* ContextStore._max_context_return
    file,              \* the content of the store file at _path
    tmp,               \* the content of the .tmp file beside it
    appended,          \* per conversation: what _load found and every
                       \* qualifying entry appended since, in order
    last_append,       \* how the latest append call ended
    recent,            \* the latest get_recent call and what it returned
    wall,              \* time.time()
    store_ops,         \* append calls and crashes so far
    \* ---- the provider selection, _get_translator ----
    _translator_instance, \* translate.py 473 (0: None, else an object)
    local_translator,  \* each thread's local `translator`
    objects,           \* the translator objects constructed, in order
    warnings,          \* "unavailable; falling back" warnings logged
    returned,          \* what each thread's latest call returned
    \* ---- one _order_groups_left_to_right call ----
    annotated,         \* the sorted items the column loop has yet to visit
    columns,           \* the columns built so far
    \* ---- threads sharing one ContextStore ----
    _lock,             \* holder of ContextStore._lock (0: free)
    frame              \* each thread's arguments and locals in append/get_recent

callVars == <<groups, groups_list, batches, planner, config, translator, batch_index,
              attempt, delay, retry_hint, translations, all_translations,
              batch_log, calls, sleeps, transient, malformed, faults,
              last_outcome>>

rateVars == <<pc, gated, now, wake, lock, _last_api_call, clock, stamps>>

groupVars == <<words, height_med2, clusters, pending, merged, result>>

storeVars == <<store_pc, _data, _max_entries, _max_context_return, file, tmp,
               appended, last_append, recent, wall, store_ops>>

selectVars == <<_translator_instance, local_translator, objects, warnings, returned>>

orderVars == <<annotated, columns>>

lockVars == <<_lock, frame>>

vars == <<callVars, rateVars, groupVars, storeVars, selectVars, orderVars, lockVars, phase>>

----------------------------------------------------------------------------
(* Program constants (src/server/translate.py).                            *)

MAX_ITEMS_PER_REQUEST == 40

MAX_JSON_CHARS_PER_REQUEST == 12000

MAX_RETRIES == 3

INITIAL_RETRY_DELAY_SECONDS == 3

UnitsPerSecond == 64 * 5

\* MIN_SECONDS_BETWEEN_CALLS = 1.2 seconds, in time units.
MIN_SECONDS_BETWEEN_CALLS == (12 * UnitsPerSecond) \div 10

----------------------------------------------------------------------------
(* Generic helpers.                                                        *)

Min2(a, b) == IF a <= b THEN a ELSE b

Max2(a, b) == IF a >= b THEN a ELSE b

Abs(a) == IF a >= 0 THEN a ELSE 0 - a

Range(s) == {s[i] : i \in DOMAIN s}

RECURSIVE Flatten(_)
Flatten(ss) == IF ss = <<>> THEN <<>> ELSE Head(ss) \o Flatten(Tail(ss))

RECURSIVE SumSeq(_)
SumSeq(s) == IF s = <<>> THEN 0 ELSE Head(s) + SumSeq(Tail(s))

----------------------------------------------------------------------------
(* Texts and groups.                                                       *)

EmptyText == [kind |-> "empty", of |-> 0]

NoneText == [kind |-> "none", of |-> 0]

\* A test that takes only None for missing (`text is not None`).
Truthy_NotNone(text) == text # NoneText

\* Python truthiness of a str-or-None value.
Truthy(text) == text # EmptyText /\ text # NoneText

\* group.get("kr_text", ""): a group of kr_len 0 has the empty source text.
KrText(g) == IF g.kr_len = 0 THEN EmptyText ELSE [kind |-> "kr", of |-> g.id]

EnText(id) == [kind |-> "en", of |-> id]

\* len("g_<i>") for the ids group_words assigns.
IdLen(id) == IF id < 10 THEN 3 ELSE IF id < 100 THEN 4 ELSE 5

\* payload_entry = {"id": group["id"], "kr": group.get("kr_text", "")}
PayloadEntry(g) == [id |-> g.id, kr |-> KrText(g), kr_len |-> g.kr_len,
                    kr_extra |-> g.kr_extra]

\* len(json.dumps(payload_entry, ensure_ascii=False)) with Python's default
\* separators: {"id": "<id>", "kr": "<kr>"}  (8 + 10 + 2 fixed characters;
\* the texts hold no character that JSON escapes).
EntryChars(e) == 8 + IdLen(e.id) + 10 + e.kr_len + 2

\* The same entry in UTF-8 bytes: kr_extra counts the bytes beyond one per
\* character (2 for each Hangul syllable).
EntryBytes(e) == EntryChars(e) + e.kr_extra

----------------------------------------------------------------------------
(* _batched_groups (translate.py 167-199).                                 *)

\* len("{\"items\":[") and len("]}")
prefix_size == 10

suffix_size == 2

\* One iteration of the for loop over groups; st is the generator's state
\* [current_groups, current_payload, current_size, out] with out the batches
\* yielded so far.
BatchFlushCond(st, entry_size, separator_size) ==
    /\ st.current_payload # <<>>
    /\ \/ Len(st.current_payload) >= MAX_ITEMS_PER_REQUEST
       \/ st.current_size + separator_size + entry_size > MAX_JSON_CHARS_PER_REQUEST

\* A loop body that forgets the group at hand when it flushes.
BatchLoopBody_DropOnFlush(st, group) ==
    LET payload_entry == PayloadEntry(group)
        entry_size == EntryChars(payload_entry)
        separator_size == IF st.current_payload # <<>> THEN 1 ELSE 0
    IN IF BatchFlushCond(st, entry_size, separator_size)
       THEN [current_groups |-> <<>>, current_payload |-> <<>>,
             current_size |-> prefix_size + suffix_size,
             out |-> Append(st.out, [groups |-> st.current_groups,
                                     payload |-> st.current_payload])]
       ELSE [current_groups |-> Append(st.current_groups, group),
             current_payload |-> Append(st.current_payload, payload_entry),
             current_size |-> st.current_size + separator_size + entry_size,
             out |-> st.out]

BatchLoopBody(st, group) ==
    LET payload_entry == PayloadEntry(group)
        entry_size == EntryChars(payload_entry)
        separator_size == IF st.current_payload # <<>> THEN 1 ELSE 0
        flush == BatchFlushCond(st, entry_size, separator_size)
        st1 == IF flush
               THEN [current_groups |-> <<>>, current_payload |-> <<>>,
                     current_size |-> prefix_size + suffix_size,
                     out |-> Append(st.out, [groups |-> st.current_groups,
                                             payload |-> st.current_payload])]
               ELSE st
        sep1 == IF flush THEN 0 ELSE separator_size
    IN [current_groups |-> Append(st1.current_groups, group),
        current_payload |-> Append(st1.current_payload, payload_entry),
        current_size |-> st1.current_size + sep1 + entry_size,
        out |-> st1.out]

RECURSIVE BatchLoop(_, _)
BatchLoop(st, gs) ==
    IF gs = <<>> THEN st ELSE BatchLoop(BatchLoopBody(st, Head(gs)), Tail(gs))

\* Lines 172-176: the generator's state before the loop.
BatchStart ==
    [current_groups |-> <<>>, current_payload |-> <<>>,
     current_size |-> prefix_size + suffix_size, out |-> <<>>]

\* Lines 198-199: the last, partial batch is yielded.
BatchEnd(fin) ==
    IF fin.current_payload # <<>>
    THEN Append(fin.out, [groups |-> fin.current_groups,
                          payload |-> fin.current_payload])
    ELSE fin.out

_batched_groups(gs) == BatchEnd(BatchLoop(BatchStart, gs))

\* json.dumps({"items": payload}, ensure_ascii=False) as the providers send
\* it (translate.py 321, 400): {"items": [e1, e2, ...]} with Python's
\* default separators ", " and ": ".
SentPayloadChars(payload) ==
    11 + SumSeq([i \in DOMAIN payload |-> EntryChars(payload[i])])
       + (IF payload = <<>> THEN 0 ELSE 2 * (Len(payload) - 1)) + 2

SentPayloadBytes(payload) ==
    11 + SumSeq([i \in DOMAIN payload |-> EntryBytes(payload[i])])
       + (IF payload = <<>> THEN 0 ELSE 2 * (Len(payload) - 1)) + 2

----------------------------------------------------------------------------
(* _order_groups_left_to_right (translate.py 202-252).                     *)
(* Coordinates are integers (ocr.py 67); centers and tolerances are kept   *)
(* doubled so that halves stay whole, and a column's running x-center is   *)
(* the exact fraction xn/xd.  Floating-point rounding is not modelled.     *)

\* Stable insertion sort of records by their integer fields (key, key2),
\* compared as a tuple, as Python's sorted()/list.sort() order them.
KeyLess(a, b) == a.key < b.key \/ (a.key = b.key /\ a.key2 < b.key2)

RECURSIVE InsertStable(_, _)
InsertStable(sorted, x) ==
    IF sorted = <<>> THEN <<x>>
    ELSE IF KeyLess(x, Head(sorted)) THEN <<x>> \o sorted
    ELSE <<Head(sorted)>> \o InsertStable(Tail(sorted), x)

RECURSIVE StableSort(_)
StableSort(s) ==
    IF s = <<>> THEN <<>>
    ELSE InsertStable(StableSort(SubSeq(s, 1, Len(s) - 1)), s[Len(s)])

\* width = max(x1 - x0, 1.0); x_center = x0 + width / 2.0 (doubled); same for y.
Annotate(group) ==
    LET width == Max2(group.bbox[3] - group.bbox[1], 1)
        height == Max2(group.bbox[4] - group.bbox[2], 1)
    IN [group |-> group,
        x_center2 |-> 2 * group.bbox[1] + width,
        y_center2 |-> 2 * group.bbox[2] + height,
        width |-> width]

\* tolerance = max(item["width"] * 1.5, 64.0), doubled.
ItemTolerance2(item) == Max2(3 * item.width, 128)

\* abs(item["x_center"] - column["x_center"]) <= column["tolerance"]
ColumnMatches(column, item) ==
    Abs(item.x_center2 * column.xd - column.xn) <= column.tolerance2 * column.xd

\* Index of the first matching column, 0 if none.
RECURSIVE FirstColumn(_, _, _)
FirstColumn(cols, item, k) ==
    IF k > Len(cols) THEN 0
    ELSE IF ColumnMatches(cols[k], item) THEN k
    ELSE FirstColumn(cols, item, k + 1)

\* An append that leaves the column's x-center where it was.
ColumnAdd_KeepCenter(column, item) ==
    [column EXCEPT !.tolerance2 = Max2(column.tolerance2, ItemTolerance2(item)),
                   !.items = Append(column.items, item)]

\* target_column["items"].append(item); count = len(items);
\* x_center += (item.x_center - x_center) / count; tolerance = max(...)
ColumnAdd(column, item) ==
    LET count == Len(column.items) + 1
    IN [xn |-> column.xn * count + (item.x_center2 * column.xd - column.xn),
        xd |-> column.xd * count,
        tolerance2 |-> Max2(column.tolerance2, ItemTolerance2(item)),
        items |-> Append(column.items, item)]

\* Lines 228-243: one pass of the column loop's body.
PlaceItem(cols, item) ==
    LET k == FirstColumn(cols, item, 1)
        fresh == [xn |-> item.x_center2, xd |-> 1,
                  tolerance2 |-> ItemTolerance2(item), items |-> <<>>]
    IN IF k = 0 THEN Append(cols, ColumnAdd(fresh, item))
       ELSE [cols EXCEPT ![k] = ColumnAdd(cols[k], item)]

RECURSIVE BuildColumns(_, _)
BuildColumns(cols, items) ==
    IF items = <<>> THEN cols
    ELSE BuildColumns(PlaceItem(cols, Head(items)), Tail(items))

RECURSIVE ProductOfDens(_)
ProductOfDens(cols) ==
    IF cols = <<>> THEN 1 ELSE Head(cols).xd * ProductOfDens(Tail(cols))

\* Lines 205-223 and 229: the annotated items, sorted by x_center.
SortedItems(gs) ==
    LET items == [i \in DOMAIN gs |-> Annotate(gs[i])]
        byX == StableSort([i \in DOMAIN gs |->
                   [key |-> items[i].x_center2, key2 |-> 0, v |-> items[i]]])
    IN [i \in DOMAIN byX |-> byX[i].v]

\* Lines 247-251: sort the columns by x_center, each column's items by
\* y_center, and concatenate.
OrderedGroups(cols) ==
    LET D == ProductOfDens(cols)
        byCol == StableSort([c \in DOMAIN cols |->
                   [key |-> cols[c].xn * (D \div cols[c].xd), key2 |-> 0,
                    v |-> cols[c]]])
        ColumnGroups(col) ==
            LET byY == StableSort([i \in DOMAIN col.items |->
                           [key |-> col.items[i].y_center2, key2 |-> 0,
                            v |-> col.items[i]]])
            IN [i \in DOMAIN byY |-> byY[i].v.group]
    IN Flatten([c \in DOMAIN byCol |-> ColumnGroups(byCol[c].v)])

_order_groups_left_to_right(gs) ==
    IF gs = <<>> THEN gs
    ELSE OrderedGroups(BuildColumns(<<>>, SortedItems(gs)))

----------------------------------------------------------------------------
(* Provider selection, _get_translator (translate.py 497-520).             *)

\* config.provider is TRANSLATOR_PROVIDER lower-cased and stripped;
\* config.available is what the chosen provider's is_available() returns
\* (Cerebras: SDK importable and CEREBRAS_API_KEY set; Gemini: GEMINI_API_KEY).
\* A selection that skips the is_available() check.
SelectTranslator_SkipAvailability(cfg) ==
    IF cfg.provider = "gemini" THEN "gemini" ELSE "cerebras"

SelectTranslator(cfg) ==
    LET chosen == IF cfg.provider = "gemini" THEN "gemini" ELSE "cerebras"
    IN IF cfg.available THEN chosen ELSE "fallback"

_get_translator(instance, cfg) ==
    IF instance # "none" THEN instance ELSE SelectTranslator(cfg)

----------------------------------------------------------------------------
(* Provider responses.                                                     *)

NoHint == [present |-> FALSE, secs |-> 0]

Hint(secs) == [present |-> TRUE, secs |-> secs]

RetryAfterHints == {NoHint, Hint(1), Hint(10)}

OkVariants == {"full", "missing", "extra", "empty_en"}

\* An id no input group has, and the empty id "".
ForeignId == 100 - 1

EmptyId == 0 - 1

\* The items array of a well-shaped response body to `payload`:
\*   full      every id of the batch with a translation
\*   missing   the first id of the batch left out
\*   extra     every id, plus ids that are not in the batch (another input
\*             group's, an unknown one, and an item whose id is "")
\*   empty_en  the first id of the batch translated to ""
ResponseItems(variant, payload, all_ids) ==
    LET full == [i \in DOMAIN payload |-> [id |-> payload[i].id, en |-> EnText(payload[i].id)]]
        others == {id \in all_ids : \A i \in DOMAIN payload : payload[i].id # id}
        other == IF others = {} THEN ForeignId ELSE CHOOSE id \in others : TRUE
    IN CASE variant = "full" -> full
         [] variant = "missing" -> Tail(full)
         [] variant = "extra" ->
                full \o <<[id |-> other, en |-> EnText(other)],
                          [id |-> ForeignId, en |-> EnText(ForeignId)],
                          [id |-> EmptyId, en |-> EnText(ForeignId)]>>
         [] variant = "empty_en" ->
                <<[id |-> full[1].id, en |-> EmptyText]>> \o Tail(full)

\* {item.get("id", ""): item.get("en", "") for item in items if item.get("id")}
ParseItems(items) ==
    LET ids == {items[i].id : i \in {j \in DOMAIN items : items[j].id # EmptyId}}
        LastIndex(id) == CHOOSE i \in DOMAIN items :
                            /\ items[i].id = id
                            /\ \A j \in DOMAIN items : items[j].id = id => j <= i
    IN [id \in ids |-> items[LastIndex(id)].en]

EmptyDict == [id \in {} |-> EmptyText]

\* What one network call can come back with.
\*   ok            a body of the {items:[{id,en}]} shape
\*   error         the call raised: network or HTTP error (the SDK's error may
\*                 carry a Retry-After header)
\*   rate_limited  HTTP 429, with or without Retry-After
\*   empty         no choices / no candidates
\*   bad_json      the content is not parsable JSON
\*   bad_shape     the content parses but is not of the shape (a top-level
\*                 list, items whose elements are not objects)
Outcomes ==
    {[kind |-> "ok", variant |-> v, hint |-> NoHint] : v \in OkVariants}
    \cup {[kind |-> k, variant |-> "", hint |-> h] :
            k \in {"error", "rate_limited"}, h \in RetryAfterHints}
    \cup {[kind |-> k, variant |-> "", hint |-> NoHint] :
            k \in {"empty", "bad_json", "bad_shape"}}

NoOutcome == [kind |-> "none", variant |-> "", hint |-> NoHint]

IsFailure(o) == o.kind # "ok"

IsTransient(o) == o.kind \in {"error", "rate_limited"}

IsMalformed(o) == o.kind \in {"empty", "bad_json", "bad_shape"}

HintUnits(h) == h.secs * UnitsPerSecond

\* delay * 1.5
TimesOneAndHalf(d) == (d * 3) \div 2

\* delay = max(hint, delay * 1.5) if a hint is present, else delay *= 1.5
NextDelay(d, h) ==
    IF h.present THEN Max2(HintUnits(h), TimesOneAndHalf(d)) ELSE TimesOneAndHalf(d)

\* CerebrasTranslator.translate_batch, one pass of the try/except
\* (translate.py 335-376).  The result says where control goes:
\*   return  the batch's dict is returned
\*   sleep   the generic handler sleeps `sleep_for`, then the loop goes on
\*   fail    TranslationError leaves translate_batch
\*   crash   another exception leaves translate_batch
CerebrasAttempt(o, d, payload, all_ids) ==
    CASE o.kind = "ok" ->
            [to |-> "return", sleep_for |-> 0, hint |-> NoHint,
             result |-> ParseItems(ResponseItems(o.variant, payload, all_ids))]
      [] o.kind = "bad_json" ->
            [to |-> "fail", sleep_for |-> 0, hint |-> NoHint, result |-> EmptyDict]
      [] o.kind \in {"error", "rate_limited"} ->
            [to |-> "sleep", sleep_for |-> d, hint |-> o.hint, result |-> EmptyDict]
      [] o.kind \in {"empty", "bad_shape"} ->
            \* TranslationError / AttributeError, caught by `except Exception`
            [to |-> "sleep", sleep_for |-> d, hint |-> NoHint, result |-> EmptyDict]

\* GeminiTranslator.translate_batch, one pass of the try/except
\* (translate.py 416-468).
GeminiAttempt(o, d, payload, all_ids) ==
    CASE o.kind = "ok" ->
            [to |-> "return", sleep_for |-> 0, hint |-> NoHint,
             result |-> ParseItems(ResponseItems(o.variant, payload, all_ids))]
      [] o.kind = "rate_limited" ->
            \* delay is raised before TranslationError("Gemini rate limited")
            [to |-> "sleep", sleep_for |-> NextDelay(d, o.hint), hint |-> NoHint,
             result |-> EmptyDict]
      [] o.kind \in {"error", "empty", "bad_json"} ->
            [to |-> "sleep", sleep_for |-> d, hint |-> NoHint, result |-> EmptyDict]
      [] o.kind = "bad_shape" ->
            \* AttributeError is not among the exceptions the loop catches
            [to |-> "crash", sleep_for |-> 0, hint |-> NoHint, result |-> EmptyDict]

\* The delay after the sleep: Cerebras applies the hint (372-376), Gemini
\* multiplies (468).
DelayAfterSleep(provider, d, h) ==
    IF provider = "cerebras" THEN NextDelay(d, h) ELSE TimesOneAndHalf(d)

\* FallbackTranslator.translate_batch (translate.py 293-300)
FallbackBatch(payload) ==
    [id \in {payload[i].id : i \in {j \in DOMAIN payload : payload[j].id # EmptyId}} |->
        (LET i == CHOOSE j \in DOMAIN payload : payload[j].id = id IN payload[i].kr)]

\* A loop that runs one attempt too many.
AttemptsExhausted_OffByOne(a) == a > MAX_RETRIES

\* for attempt in range(MAX_RETRIES): the loop is over
AttemptsExhausted(a) == a >= MAX_RETRIES

\* A merge that takes whatever the response holds for the id, empty or not.
MergeText_NoFallback(resp, group) ==
    IF group.id \in DOMAIN resp THEN resp[group.id] ELSE KrText(group)

\* The orchestrator's merge of one batch (translate.py 550-553).
MergeText(resp, group) ==
    LET fallback_text == KrText(group)
        text == IF group.id \in DOMAIN resp THEN resp[group.id] ELSE fallback_text
    IN IF Truthy(text) THEN text ELSE fallback_text

\* A merge that copies the response into the result key by key
\* (all_translations.update(translations)).
MergeBatch_ResponseKeys(all, batch_groups, resp) ==
    [id \in DOMAIN all \cup DOMAIN resp |->
        IF id \in DOMAIN resp THEN resp[id] ELSE all[id]]

RECURSIVE MergeBatch(_, _, _)
MergeBatch(all, batch_groups, resp) ==
    IF batch_groups = <<>> THEN all
    ELSE LET g == Head(batch_groups)
             put == [id \in DOMAIN all \cup {g.id} |->
                        IF id = g.id THEN MergeText(resp, g) ELSE all[id]]
         IN MergeBatch(put, Tail(batch_groups), resp)

----------------------------------------------------------------------------
(* _respect_rate_limit (translate.py 108-122), one step per statement.     *)
(* MIN_SECONDS_BETWEEN_CALLS > 0, so the early return of line 111 is never *)
(* taken.  time.sleep(wait) returns no earlier than `wait` later.          *)

\* A limiter without the lock.
LockFree_Always(t) == TRUE

\* with _rate_limit_lock: (blocks until the lock is free)
LockFree(t) == lock = 0

RLAcquire(t) ==
    /\ pc[t] = "rl_lock"
    /\ LockFree(t)
    /\ lock' = t
    /\ pc' = [pc EXCEPT ![t] = "rl_check"]
    /\ UNCHANGED <<gated, now, wake, _last_api_call, clock, stamps>>

\* wait = _last_api_call + MIN_SECONDS_BETWEEN_CALLS - now
RateWait(last, n) == last + MIN_SECONDS_BETWEEN_CALLS - n

\* now = time.monotonic(); wait = ...; if wait > 0: time.sleep(wait)
RLCheck(t) ==
    /\ pc[t] = "rl_check"
    /\ now' = [now EXCEPT ![t] = clock]
    /\ LET wait == RateWait(_last_api_call, clock)
       IN IF wait > 0
          THEN /\ wake' = [wake EXCEPT ![t] = clock + wait]
               /\ pc' = [pc EXCEPT ![t] = "rl_sleep"]
          ELSE /\ wake' = wake
               /\ pc' = [pc EXCEPT ![t] = "rl_record"]
    /\ UNCHANGED <<gated, lock, _last_api_call, clock, stamps>>

\* time.sleep(wait) returns; now = time.monotonic()
RLWake(t) ==
    /\ pc[t] = "rl_sleep"
    /\ clock >= wake[t]
    /\ now' = [now EXCEPT ![t] = clock]
    /\ pc' = [pc EXCEPT ![t] = "rl_record"]
    /\ UNCHANGED <<gated, wake, lock, _last_api_call, clock, stamps>>

\* _last_api_call = now; the with block ends and releases the lock
RLRecord(t) ==
    /\ pc[t] = "rl_record"
    /\ _last_api_call' = now[t]
    /\ stamps' = Append(stamps, now[t])
    /\ lock' = IF lock = t THEN 0 ELSE lock
    /\ gated' = [gated EXCEPT ![t] = TRUE]
    /\ pc' = [pc EXCEPT ![t] = "call"]
    /\ UNCHANGED <<now, wake, clock>>

Sleeping(t) == pc[t] \in {"rl_sleep", "backoff"}

\* Time passes until the earliest sleeper is due.
SleepElapse ==
    /\ \E t \in DOMAIN pc : Sleeping(t) /\ wake[t] > clock
    /\ \A t \in DOMAIN pc : Sleeping(t) => wake[t] > clock
    /\ \E t \in DOMAIN pc :
          /\ Sleeping(t)
          /\ \A u \in DOMAIN pc : Sleeping(u) => wake[t] <= wake[u]
          /\ clock' = wake[t]
    /\ UNCHANGED <<pc, gated, now, wake, lock, _last_api_call, stamps>>

----------------------------------------------------------------------------
(* translate_groups_kr_to_en (translate.py 523-555) on the request thread. *)
(* A network call takes no time in the model.                              *)

Req == 1

InputIds == {groups[i].id : i \in DOMAIN groups}

CurrentBatch == batches[batch_index]

InitialDelay == INITIAL_RETRY_DELAY_SECONDS * UnitsPerSecond

\* Lines 528-533: order the groups, resolve the provider, start the batches.
TranslateStart ==
    /\ pc[Req] = "start"
    /\ groups_list' = _order_groups_left_to_right(groups)
    /\ translator' = _get_translator(translator, config)
    /\ batches' = _batched_groups(groups_list')
    /\ all_translations' = EmptyDict
    /\ batch_index' = 1
    /\ pc' = [pc EXCEPT ![Req] = "next_batch"]
    /\ UNCHANGED <<groups, planner, config, attempt, delay, retry_hint, translations,
                   batch_log, calls, sleeps, transient, malformed, faults, last_outcome>>
    /\ UNCHANGED <<gated, now, wake, lock, _last_api_call, clock, stamps, phase>>
    /\ UNCHANGED <<groupVars, storeVars, selectVars, orderVars, lockVars>>

\* Line 555: the generator is exhausted, return all_translations.
TranslateReturn ==
    /\ pc[Req] = "next_batch"
    /\ batch_index > Len(batches)
    /\ pc' = [pc EXCEPT ![Req] = "done"]
    /\ UNCHANGED callVars
    /\ UNCHANGED <<gated, now, wake, lock, _last_api_call, clock, stamps, phase>>
    /\ UNCHANGED <<groupVars, storeVars, selectVars, orderVars, lockVars>>

\* Lines 534-540 with the echo provider: translate_batch returns at once.
BatchFallback ==
    /\ pc[Req] = "next_batch"
    /\ batch_index <= Len(batches)
    /\ translator = "fallback"
    /\ translations' = [failed |-> FALSE, dict |-> FallbackBatch(CurrentBatch.payload)]
    /\ calls' = 0 /\ sleeps' = <<>> /\ transient' = 0 /\ malformed' = 0
    /\ pc' = [pc EXCEPT ![Req] = "merge"]
    /\ UNCHANGED <<groups, groups_list, batches, planner, config, translator, batch_index,
                   attempt, delay, retry_hint, all_translations, batch_log, faults,
                   last_outcome>>
    /\ UNCHANGED <<gated, now, wake, lock, _last_api_call, clock, stamps, phase>>
    /\ UNCHANGED <<groupVars, storeVars, selectVars, orderVars, lockVars>>

\* Lines 534-540 with a remote provider: translate_batch is entered
\* (delay = float(INITIAL_RETRY_DELAY_SECONDS), lines 332 and 413).
BatchRemote ==
    /\ pc[Req] = "next_batch"
    /\ batch_index <= Len(batches)
    /\ translator \in {"cerebras", "gemini"}
    /\ attempt' = 0
    /\ delay' = InitialDelay
    /\ retry_hint' = NoHint
    /\ calls' = 0 /\ sleeps' = <<>> /\ transient' = 0 /\ malformed' = 0
    /\ pc' = [pc EXCEPT ![Req] = "attempt"]
    /\ UNCHANGED <<groups, groups_list, batches, planner, config, translator, batch_index,
                   translations, all_translations, batch_log, faults, last_outcome>>
    /\ UNCHANGED <<gated, now, wake, lock, _last_api_call, clock, stamps, phase>>
    /\ UNCHANGED <<groupVars, storeVars, selectVars, orderVars, lockVars>>

\* Lines 378 and 470: the loop is over, TranslationError("... failed after
\* retries") is raised and the orchestrator (541-548) sets translations = {}.
RetriesExhausted ==
    /\ pc[Req] = "attempt"
    /\ AttemptsExhausted(attempt)
    /\ translations' = [failed |-> TRUE, dict |-> EmptyDict]
    /\ pc' = [pc EXCEPT ![Req] = "merge"]
    /\ UNCHANGED <<groups, groups_list, batches, planner, config, translator, batch_index,
                   attempt, delay, retry_hint, all_translations, batch_log,
                   calls, sleeps, transient, malformed, faults, last_outcome>>
    /\ UNCHANGED <<gated, now, wake, lock, _last_api_call, clock, stamps, phase>>
    /\ UNCHANGED <<groupVars, storeVars, selectVars, orderVars, lockVars>>

\* Which providers call _respect_rate_limit() before the network call:
\* CerebrasTranslator does (line 336); GeminiTranslator posts directly (417).
UsesRateLimiter(provider) == provider = "cerebras"

\* Line 336: the attempt begins with _respect_rate_limit().
AttemptLimited ==
    /\ pc[Req] = "attempt"
    /\ ~AttemptsExhausted(attempt)
    /\ UsesRateLimiter(translator)
    /\ pc' = [pc EXCEPT ![Req] = "rl_lock"]
    /\ UNCHANGED callVars
    /\ UNCHANGED <<gated, now, wake, lock, _last_api_call, clock, stamps, phase>>
    /\ UNCHANGED <<groupVars, storeVars, selectVars, orderVars, lockVars>>

\* Line 417: the attempt goes straight to the network call.
AttemptDirect ==
    /\ pc[Req] = "attempt"
    /\ ~AttemptsExhausted(attempt)
    /\ ~UsesRateLimiter(translator)
    /\ pc' = [pc EXCEPT ![Req] = "call"]
    /\ UNCHANGED callVars
    /\ UNCHANGED <<gated, now, wake, lock, _last_api_call, clock, stamps, phase>>
    /\ UNCHANGED <<groupVars, storeVars, selectVars, orderVars, lockVars>>

MaxFaults == 3

AttemptResult(provider, o, d, payload, all_ids) ==
    IF provider = "cerebras" THEN CerebrasAttempt(o, d, payload, all_ids)
    ELSE GeminiAttempt(o, d, payload, all_ids)

\* The network call of one attempt and what the try/except makes of it.
ProviderCall ==
    /\ pc[Req] = "call"
    /\ \E o \in Outcomes :
        /\ IsFailure(o) => faults < MaxFaults
        /\ LET r == AttemptResult(translator, o, delay, CurrentBatch.payload, InputIds)
           IN /\ calls' = calls + 1
              /\ transient' = transient + (IF IsTransient(o) THEN 1 ELSE 0)
              /\ malformed' = malformed + (IF IsMalformed(o) THEN 1 ELSE 0)
              /\ faults' = faults + (IF IsFailure(o) THEN 1 ELSE 0)
              /\ last_outcome' = o
              /\ gated' = [gated EXCEPT ![Req] = FALSE]
              /\ translations' =
                    CASE r.to = "return" -> [failed |-> FALSE, dict |-> r.result]
                      [] r.to = "fail" -> [failed |-> TRUE, dict |-> EmptyDict]
                      [] OTHER -> translations
              /\ pc' = [pc EXCEPT ![Req] =
                    CASE r.to = "return" -> "merge"
                      [] r.to = "fail" -> "merge"
                      [] r.to = "sleep" -> "backoff"
                      [] r.to = "crash" -> "raised"]
              /\ sleeps' = IF r.to = "sleep" THEN Append(sleeps, r.sleep_for) ELSE sleeps
              /\ delay' = IF r.to = "sleep" THEN r.sleep_for ELSE delay
              /\ retry_hint' = IF r.to = "sleep" THEN r.hint ELSE retry_hint
              /\ wake' = IF r.to = "sleep"
                         THEN [wake EXCEPT ![Req] = clock + r.sleep_for] ELSE wake
    /\ UNCHANGED <<groups, groups_list, batches, planner, config, translator, batch_index,
                   attempt, all_translations, batch_log>>
    /\ UNCHANGED <<now, lock, _last_api_call, clock, stamps, phase>>
    /\ UNCHANGED <<groupVars, storeVars, selectVars, orderVars, lockVars>>

\* time.sleep(delay) returns; the delay is raised and the loop goes on.
BackoffWake ==
    /\ pc[Req] = "backoff"
    /\ clock >= wake[Req]
    /\ delay' = DelayAfterSleep(translator, delay, retry_hint)
    /\ attempt' = attempt + 1
    /\ pc' = [pc EXCEPT ![Req] = "attempt"]
    /\ UNCHANGED <<groups, groups_list, batches, planner, config, translator, batch_index,
                   retry_hint, translations, all_translations, batch_log,
                   calls, sleeps, transient, malformed, faults, last_outcome>>
    /\ UNCHANGED <<gated, now, wake, lock, _last_api_call, clock, stamps, phase>>
    /\ UNCHANGED <<groupVars, storeVars, selectVars, orderVars, lockVars>>

\* A loop that moves on to the next batch without merging the current one.
MergeStep_SkipMerge ==
    /\ pc[Req] = "merge"
    /\ batch_index' = batch_index + 1
    /\ pc' = [pc EXCEPT ![Req] = "next_batch"]
    /\ UNCHANGED <<groups, groups_list, batches, planner, config, translator,
                   attempt, delay, retry_hint, translations, all_translations, batch_log,
                   calls, sleeps, transient, malformed, faults, last_outcome>>
    /\ UNCHANGED <<gated, now, wake, lock, _last_api_call, clock, stamps, phase>>
    /\ UNCHANGED <<groupVars, storeVars, selectVars, orderVars, lockVars>>

\* Lines 550-553: merge the batch into all_translations.
MergeStep ==
    /\ pc[Req] = "merge"
    /\ all_translations' = MergeBatch(all_translations, CurrentBatch.groups, translations.dict)
    /\ batch_log' = Append(batch_log, translations)
    /\ batch_index' = batch_index + 1
    /\ pc' = [pc EXCEPT ![Req] = "next_batch"]
    /\ UNCHANGED <<groups, groups_list, batches, planner, config, translator,
                   attempt, delay, retry_hint, translations,
                   calls, sleeps, transient, malformed, faults, last_outcome>>
    /\ UNCHANGED <<gated, now, wake, lock, _last_api_call, clock, stamps, phase>>
    /\ UNCHANGED <<groupVars, storeVars, selectVars, orderVars, lockVars>>

----------------------------------------------------------------------------
(* Spec: one translate_groups_kr_to_en call under every provider           *)
(* configuration and every behaviour of the provider.                      *)

MaxGroups == 2

KrLens == {0, 4, 6000}

Layouts == {"ltr", "rtl", "stack"}

\* n groups g_0 .. g_{n-1} with the given source-text lengths, laid out in
\* one row left to right, in one row right to left, or stacked bottom-up.
CallInput(n, lens, layout) ==
    [i \in 1..n |->
        LET x0 == CASE layout = "ltr" -> 300 * (i - 1)
                    [] layout = "rtl" -> 300 * (n - i)
                    [] OTHER -> 0
            y0 == IF layout = "stack" THEN 100 * (n - i) ELSE 0
        IN [id |-> i - 1, kr_len |-> lens[i], kr_extra |-> 2 * lens[i],
            bbox |-> <<x0, y0, x0 + 100, y0 + 40>>]]

CallInputs ==
    UNION {{CallInput(n, lens, layout) : lens \in [1..n -> KrLens], layout \in Layouts} :
           n \in 0..MaxGroups}

Configs == [provider : {"gemini", "cerebras", "deepl"}, available : BOOLEAN]

CallIdle ==
    /\ groups_list = <<>>
    /\ batches = <<>>
    /\ planner = [st |-> BatchStart, next |-> 1]
    /\ translator = "none"
    /\ batch_index = 0
    /\ attempt = 0
    /\ delay = 0
    /\ retry_hint = NoHint
    /\ translations = [failed |-> FALSE, dict |-> EmptyDict]
    /\ all_translations = EmptyDict
    /\ batch_log = <<>>
    /\ calls = 0
    /\ sleeps = <<>>
    /\ transient = 0
    /\ malformed = 0
    /\ faults = 0
    /\ last_outcome = NoOutcome

RateIdle(threads, where) ==
    /\ pc = [t \in threads |-> where]
    /\ gated = [t \in threads |-> FALSE]
    /\ now = [t \in threads |-> 0]
    /\ wake = [t \in threads |-> 0]
    /\ lock = 0
    /\ _last_api_call = 0
    /\ clock = 0
    /\ stamps = <<>>

GroupIdle ==
    /\ height_med2 = 0
    /\ clusters = <<>>
    /\ pending = <<>>
    /\ merged = <<>>
    /\ result = <<>>

\* No ContextStore is in use.
NoFile == [kind |-> "missing", top |-> "", items |-> <<>>]

NoRecent == [conv |-> "", limit |-> 0, result |-> <<>>]

StoreIdle ==
    /\ store_pc = "unused"
    /\ _data = <<>>
    /\ _max_entries = 0
    /\ _max_context_return = 0
    /\ file = NoFile
    /\ tmp = NoFile
    /\ appended = <<>>
    /\ last_append = "none"
    /\ recent = NoRecent
    /\ wall = 0
    /\ store_ops = 0

\* _translator_instance = None (translate.py 473) and no thread has asked.
SelectIdle ==
    /\ _translator_instance = 0
    /\ local_translator = <<>>
    /\ objects = <<>>
    /\ warnings = 0
    /\ returned = <<>>

\* No _order_groups_left_to_right call is being stepped through.
OrderIdle ==
    /\ annotated = <<>>
    /\ columns = <<>>

\* ContextStore._lock is free and no thread is inside the store.
LockIdle ==
    /\ _lock = 0
    /\ frame = <<>>

Init ==
    /\ groups \in CallInputs
    /\ config \in Configs
    /\ CallIdle
    /\ RateIdle({Req}, "start")
    /\ words = <<>>
    /\ GroupIdle
    /\ StoreIdle
    /\ SelectIdle
    /\ OrderIdle
    /\ LockIdle
    /\ phase = "call"

\* The request thread inside _respect_rate_limit (line 336), and time
\* passing while it sleeps.
LimiterAcquire == RLAcquire(Req) /\ UNCHANGED <<callVars, groupVars, storeVars, selectVars, orderVars, lockVars, phase>>

LimiterCheck == RLCheck(Req) /\ UNCHANGED <<callVars, groupVars, storeVars, selectVars, orderVars, lockVars, phase>>

LimiterWake == RLWake(Req) /\ UNCHANGED <<callVars, groupVars, storeVars, selectVars, orderVars, lockVars, phase>>

LimiterRecord == RLRecord(Req) /\ UNCHANGED <<callVars, groupVars, storeVars, selectVars, orderVars, lockVars, phase>>

BackoffElapse == SleepElapse /\ UNCHANGED <<callVars, groupVars, storeVars, selectVars, orderVars, lockVars, phase>>

Next ==
    \/ TranslateStart
    \/ TranslateReturn
    \/ BatchFallback
    \/ BatchRemote
    \/ RetriesExhausted
    \/ AttemptLimited
    \/ AttemptDirect
    \/ LimiterAcquire
    \/ LimiterCheck
    \/ LimiterWake
    \/ LimiterRecord
    \/ BackoffElapse
    \/ ProviderCall
    \/ BackoffWake
    \/ MergeStep

Spec == Init /\ [][Next]_vars

----------------------------------------------------------------------------
(* SpecRate: threads that call _respect_rate_limit() and then issue their  *)
(* network call, over and over, while time passes freely.                  *)

NumThreads == 2

MaxTicks == 10

\* One tick is 0.4 s.
TickUnits == (2 * UnitsPerSecond) \div 5

Threads == 1..NumThreads

\* A thread reaches line 336.
RLEnter(t) ==
    /\ pc[t] = "idle"
    /\ pc' = [pc EXCEPT ![t] = "rl_lock"]
    /\ UNCHANGED <<gated, now, wake, lock, _last_api_call, clock, stamps>>

\* The network call that follows the limiter (line 337) is made and ends.
RateCall(t) ==
    /\ pc[t] = "call"
    /\ gated' = [gated EXCEPT ![t] = FALSE]
    /\ pc' = [pc EXCEPT ![t] = "idle"]
    /\ UNCHANGED <<now, wake, lock, _last_api_call, clock, stamps>>

Tick ==
    /\ clock < MaxTicks * TickUnits
    /\ clock' = clock + TickUnits
    /\ UNCHANGED <<pc, gated, now, wake, lock, _last_api_call, stamps>>

InitRate ==
    /\ groups = <<>>
    /\ config = [provider |-> "cerebras", available |-> TRUE]
    /\ CallIdle
    /\ RateIdle(Threads, "idle")
    /\ words = <<>>
    /\ GroupIdle
    /\ StoreIdle
    /\ SelectIdle
    /\ OrderIdle
    /\ LockIdle
    /\ phase = "rate"

ThreadEnter ==
    \E t \in Threads :
        RLEnter(t) /\ UNCHANGED <<callVars, groupVars, storeVars, selectVars, orderVars, lockVars, phase>>

ThreadAcquire ==
    \E t \in Threads :
        RLAcquire(t) /\ UNCHANGED <<callVars, groupVars, storeVars, selectVars, orderVars, lockVars, phase>>

ThreadCheck ==
    \E t \in Threads :
        RLCheck(t) /\ UNCHANGED <<callVars, groupVars, storeVars, selectVars, orderVars, lockVars, phase>>

ThreadWake ==
    \E t \in Threads :
        RLWake(t) /\ UNCHANGED <<callVars, groupVars, storeVars, selectVars, orderVars, lockVars, phase>>

ThreadRecord ==
    \E t \in Threads :
        RLRecord(t) /\ UNCHANGED <<callVars, groupVars, storeVars, selectVars, orderVars, lockVars, phase>>

ThreadCall ==
    \E t \in Threads :
        RateCall(t) /\ UNCHANGED <<callVars, groupVars, storeVars, selectVars, orderVars, lockVars, phase>>

TimePasses == Tick /\ UNCHANGED <<callVars, groupVars, storeVars, selectVars, orderVars, lockVars, phase>>

NextRate ==
    \/ ThreadEnter
    \/ ThreadAcquire
    \/ ThreadCheck
    \/ ThreadWake
    \/ ThreadRecord
    \/ ThreadCall
    \/ TimePasses

SpecRate == InitRate /\ [][NextRate]_vars

----------------------------------------------------------------------------
(* group_words and _merge_adjacent_groups (grouping.py).                   *)
(* Coordinates are integers (ocr.py 67).  Centers are kept doubled, the    *)
(* radius 1.4 * median(heights) is kept as height_med2 = 2 * median, and   *)
(* every comparison of the code is made on exact integers after clearing   *)
(* denominators; floating-point rounding is not modelled.  Adjacency is    *)
(* the pairwise scan of _neighbors_naive; the KD-tree variant answers the  *)
(* same question (distance <= radius).                                     *)

\* _polygon_to_box
SetMin(S) == CHOOSE x \in S : \A y \in S : x <= y

SetMax(S) == CHOOSE x \in S : \A y \in S : x >= y

_polygon_to_box(poly) ==
    LET xs == {poly[k][1] : k \in DOMAIN poly}
        ys == {poly[k][2] : k \in DOMAIN poly}
    IN <<SetMin(xs), SetMin(ys), SetMax(xs), SetMax(ys)>>

\* _box_center, doubled: (x0 + x1, y0 + y1)
BoxCenter2(box) == <<box[1] + box[3], box[2] + box[4]>>

\* _box_height
_box_height(box) == Max2(1, box[4] - box[2])

\* 2 * statistics.median(heights)
Median2(heights) ==
    LET srt == StableSort([i \in DOMAIN heights |-> [key |-> heights[i], key2 |-> 0]])
        n == Len(heights)
    IN IF n % 2 = 1 THEN 2 * srt[(n + 1) \div 2].key
       ELSE srt[n \div 2].key + srt[n \div 2 + 1].key

\* (x1 - x2)**2 + (y1 - y2)**2 <= radius * radius, with radius = 0.7 * med2
\* and doubled centers: 100 * d2 <= 4 * 49 * med2^2.
WithinRadius(c1, c2, med2) ==
    100 * ((c1[1] - c2[1]) * (c1[1] - c2[1]) + (c1[2] - c2[2]) * (c1[2] - c2[2]))
        <= 196 * med2 * med2

\* _neighbors_naive: adjacency[i] lists i's neighbours in ascending order.
RECURSIVE NeighborList(_, _, _, _)
NeighborList(centers, med2, i, j) ==
    IF j > Len(centers) THEN <<>>
    ELSE (IF j # i /\ WithinRadius(centers[i], centers[j], med2) THEN <<j>> ELSE <<>>)
         \o NeighborList(centers, med2, i, j + 1)

_neighbors_naive(centers, med2) ==
    [i \in DOMAIN centers |-> NeighborList(centers, med2, i, 1)]

\* A traversal that stops at the start node.
DrainQueue_NoChain(adjacency, queue, seen, comp) ==
    [seen |-> seen \cup {Head(queue)}, comp |-> <<Head(queue)>>]

\* The while loop of _connected_components: drain the queue.
RECURSIVE DrainQueue(_, _, _, _)
DrainQueue(adjacency, queue, seen, comp) ==
    IF queue = <<>> THEN [seen |-> seen, comp |-> comp]
    ELSE LET node == Head(queue)
         IN IF node \in seen
            THEN DrainQueue(adjacency, Tail(queue), seen, comp)
            ELSE DrainQueue(adjacency, Tail(queue) \o adjacency[node],
                            seen \cup {node}, Append(comp, node))

RECURSIVE ComponentsFrom(_, _, _, _)
ComponentsFrom(adjacency, start, seen, components) ==
    IF start > Len(adjacency) THEN components
    ELSE IF start \in seen
    THEN ComponentsFrom(adjacency, start + 1, seen, components)
    ELSE LET d == DrainQueue(adjacency, <<start>>, seen, <<>>)
         IN ComponentsFrom(adjacency, start + 1, d.seen, Append(components, d.comp))

\* Components as lists of word positions 1..n (the code's indices plus one).
_connected_components(adjacency) == ComponentsFrom(adjacency, 1, {}, <<>>)

\* n^3 times _variance(values): sum((n*v - sum(values))^2).
VarianceScaled(values) ==
    LET n == Len(values)
        total == SumSeq(values)
    IN SumSeq([i \in DOMAIN values |-> (n * values[i] - total) * (n * values[i] - total)])

\* A classification that is vertical on equality too.
Orientation_AtLeast(xs, ys) ==
    IF 10 * VarianceScaled(ys) >= 13 * VarianceScaled(xs) THEN "vertical" ELSE "horizontal"

\* "vertical" if var_y > var_x * 1.3 else "horizontal"
Orientation(xs, ys) ==
    IF 10 * VarianceScaled(ys) > 13 * VarianceScaled(xs) THEN "vertical" ELSE "horizontal"

\* Lines 168-185: the group of one component; word_idx holds the code's
\* 0-based indices.
ComponentGroup(idx, comp, boxes, centers) ==
    [id |-> idx,
     bbox |-> <<SetMin({boxes[i][1] : i \in Range(comp)}),
                SetMin({boxes[i][2] : i \in Range(comp)}),
                SetMax({boxes[i][3] : i \in Range(comp)}),
                SetMax({boxes[i][4] : i \in Range(comp)})>>,
     word_idx |-> [k \in DOMAIN comp |-> comp[k] - 1],
     orientation |-> Orientation([k \in DOMAIN comp |-> centers[comp[k]][1]],
                                 [k \in DOMAIN comp |-> centers[comp[k]][2]])]

WordBoxes(ws) == [i \in DOMAIN ws |-> _polygon_to_box(ws[i].poly)]

HeightMed2(ws) ==
    LET boxes == WordBoxes(ws)
    IN Median2([i \in DOMAIN ws |-> _box_height(boxes[i])])

\* Lines 156-185: the first pass.
FirstPass(ws) ==
    LET boxes == WordBoxes(ws)
        centers == [i \in DOMAIN ws |-> BoxCenter2(boxes[i])]
        components == _connected_components(_neighbors_naive(centers, HeightMed2(ws)))
    IN [c \in DOMAIN components |-> ComponentGroup(c - 1, components[c], boxes, centers)]

\* _axis_gap
_axis_gap(a0, a1, b0, b1) ==
    IF a1 < b0 THEN b0 - a1 ELSE IF b1 < a0 THEN a0 - b1 ELSE 0

\* proximity = max(12.0, radius * 0.6), times 100: radius * 0.6 = 0.42 * med2
Proximity100(med2) == Max2(1200, 42 * med2)

\* A closeness test that is satisfied by an overlap on one axis.
_boxes_close_OneAxis(box_a, box_b, prox100) ==
    LET gap_x == _axis_gap(box_a[1], box_a[3], box_b[1], box_b[3])
        gap_y == _axis_gap(box_a[2], box_a[4], box_b[2], box_b[4])
    IN \/ (gap_x = 0 \/ gap_y = 0)
       \/ 10000 * (gap_x * gap_x + gap_y * gap_y) <= prox100 * prox100

\* _boxes_close with threshold = proximity
_boxes_close(box_a, box_b, prox100) ==
    LET gap_x == _axis_gap(box_a[1], box_a[3], box_b[1], box_b[3])
        gap_y == _axis_gap(box_a[2], box_a[4], box_b[2], box_b[4])
    IN \/ (gap_x = 0 /\ gap_y = 0)
       \/ 10000 * (gap_x * gap_x + gap_y * gap_y) <= prox100 * prox100

\* sorted(groups, key=lambda g: (g["bbox"][1], g["bbox"][0]))
SortGroups(gs) ==
    LET srt == StableSort([i \in DOMAIN gs |->
                   [key |-> gs[i].bbox[2], key2 |-> gs[i].bbox[1], v |-> gs[i]]])
    IN [i \in DOMAIN srt |-> srt[i].v]

\* A match that does not look at the orientation.
MergeMatch_AnyOrientation(existing, group, prox100) ==
    _boxes_close(existing.bbox, group.bbox, prox100)

\* Lines 82-87: may `group` be fused into `existing`?
MergeMatch(existing, group, prox100) ==
    /\ existing.orientation = group.orientation
    /\ _boxes_close(existing.bbox, group.bbox, prox100)

\* A search that takes the last accumulator entry that matches.
RECURSIVE FirstTarget_Last(_, _, _, _)
FirstTarget_Last(acc, group, prox100, k) ==
    IF k > Len(acc) THEN 0
    ELSE LET later == FirstTarget_Last(acc, group, prox100, k + 1)
         IN IF later # 0 THEN later
            ELSE IF MergeMatch(acc[k], group, prox100) THEN k ELSE 0

\* Index of the first accumulator entry that matches, 0 if none.
RECURSIVE FirstTarget(_, _, _, _)
FirstTarget(acc, group, prox100, k) ==
    IF k > Len(acc) THEN 0
    ELSE IF MergeMatch(acc[k], group, prox100) THEN k
    ELSE FirstTarget(acc, group, prox100, k + 1)

\* A fuse that grows the box but forgets the fused group's words.
Fuse_DropIndices(target, group) ==
    [target EXCEPT
        !.bbox = <<Min2(target.bbox[1], group.bbox[1]), Min2(target.bbox[2], group.bbox[2]),
                   Max2(target.bbox[3], group.bbox[3]), Max2(target.bbox[4], group.bbox[4])>>]

\* Lines 96-101: fuse `group` into `target`.
Fuse(target, group) ==
    [target EXCEPT
        !.word_idx = target.word_idx \o group.word_idx,
        !.bbox = <<Min2(target.bbox[1], group.bbox[1]), Min2(target.bbox[2], group.bbox[2]),
                   Max2(target.bbox[3], group.bbox[3]), Max2(target.bbox[4], group.bbox[4])>>]

\* A merge that recomputes the orientation from the shape of the fused box.
MergeOne_Reshape(acc, group, prox100) ==
    LET k == FirstTarget(acc, group, prox100, 1)
        f == Fuse(acc[k], group)
    IN IF k = 0 THEN Append(acc, group)
       ELSE [acc EXCEPT ![k] =
                [f EXCEPT !.orientation =
                    IF f.bbox[4] - f.bbox[2] > f.bbox[3] - f.bbox[1]
                    THEN "vertical" ELSE "horizontal"]]

\* A merge that leaves the target's box as it was.
MergeOne_KeepBox(acc, group, prox100) ==
    LET k == FirstTarget(acc, group, prox100, 1)
    IN IF k = 0 THEN Append(acc, group)
       ELSE [acc EXCEPT ![k] = [Fuse(acc[k], group) EXCEPT !.bbox = acc[k].bbox]]

\* Lines 81-101: one pass of the merge loop's body.
MergeOne(acc, group, prox100) ==
    LET k == FirstTarget(acc, group, prox100, 1)
    IN IF k = 0 THEN Append(acc, group)
       ELSE [acc EXCEPT ![k] = Fuse(acc[k], group)]

\* sorted(set(word_idx))
SortedSet(idx) ==
    LET S == Range(idx)
        srt == StableSort([i \in 1..Cardinality(S) |->
                   [key |-> CHOOSE x \in S : Cardinality({y \in S : y < x}) = i - 1,
                    key2 |-> 0]])
    IN [i \in DOMAIN srt |-> srt[i].key]

\* Lines 103-105: word_idx = sorted(set(word_idx)); id = f"g_{idx}"
Renumber(acc) ==
    [k \in DOMAIN acc |-> [acc[k] EXCEPT !.word_idx = SortedSet(acc[k].word_idx),
                                         !.id = k - 1]]

\* group_words up to the call of _merge_adjacent_groups, and that call's
\* early return for at most one group (lines 75-76).
GroupWords ==
    /\ phase = "words"
    /\ IF words = <<>>
       THEN /\ result' = <<>>
            /\ phase' = "grouped"
            /\ UNCHANGED <<height_med2, clusters, pending, merged>>
       ELSE /\ height_med2' = HeightMed2(words)
            /\ clusters' = FirstPass(words)
            /\ merged' = <<>>
            /\ IF Len(clusters') <= 1
               THEN /\ result' = clusters'
                    /\ pending' = <<>>
                    /\ phase' = "grouped"
               ELSE /\ result' = <<>>
                    /\ pending' = SortGroups(clusters')
                    /\ phase' = "merging"
    /\ UNCHANGED <<words, callVars, rateVars,
                   storeVars, selectVars, orderVars, lockVars>>

\* One iteration of the loop of lines 80-101.
MergeLoop ==
    /\ phase = "merging"
    /\ pending # <<>>
    /\ merged' = MergeOne(merged, Head(pending), Proximity100(height_med2))
    /\ pending' = Tail(pending)
    /\ UNCHANGED <<words, height_med2, clusters, result, phase, callVars, rateVars,
                   storeVars, selectVars, orderVars, lockVars>>

\* Lines 103-107: renumber and return.
MergeFinish ==
    /\ phase = "merging"
    /\ pending = <<>>
    /\ result' = Renumber(merged)
    /\ phase' = "grouped"
    /\ UNCHANGED <<words, height_med2, clusters, pending, merged, callVars, rateVars,
                   storeVars, selectVars, orderVars, lockVars>>

----------------------------------------------------------------------------
(* SpecGroup: group_words on a bounded family of word lists.               *)

MaxWords == 4

\* Word boxes (x0, y0, width, height) on a page: a row of words 40 wide and
\* 10 high whose centers are 12 apart (within the radius of 14), 45 apart
\* (beyond the radius, boxes 5 apart) and further, the same below, and one
\* tall word that moves the median height.
WordShapes ==
    {<<0, 0, 40, 10>>, <<12, 0, 40, 10>>, <<45, 0, 40, 10>>, <<96, 0, 40, 10>>,
     <<0, 12, 40, 10>>, <<0, 24, 40, 10>>, <<45, 12, 40, 10>>, <<0, 40, 40, 10>>,
     <<60, 0, 10, 30>>}

WordOf(s) ==
    [poly |-> <<<<s[1], s[2]>>, <<s[1] + s[3], s[2]>>,
                <<s[1] + s[3], s[2] + s[4]>>, <<s[1], s[2] + s[4]>>>>]

WordLists == UNION {[1..n -> {WordOf(s) : s \in WordShapes}] : n \in 0..MaxWords}

InitGroup ==
    /\ groups = <<>>
    /\ config = [provider |-> "cerebras", available |-> FALSE]
    /\ CallIdle
    /\ RateIdle({Req}, "idle")
    /\ words \in WordLists
    /\ GroupIdle
    /\ StoreIdle
    /\ SelectIdle
    /\ OrderIdle
    /\ LockIdle
    /\ phase = "words"

NextGroup ==
    \/ GroupWords
    \/ MergeLoop
    \/ MergeFinish

SpecGroup == InitGroup /\ [][NextGroup]_vars

----------------------------------------------------------------------------
(* SpecBatch: _batched_groups applied to a bounded family of inputs.       *)

MaxBatchGroups == 41

BaseKrLens == {0, 276, 5970}

SpecialKrLens == {5971, 11990}

NoBBox == <<0, 0, 0, 0>>

\* n groups g_0 .. g_{n-1}; all have a source text of `base` characters
\* except the p-th (p = 0: none), which has `special`; hangul: the texts
\* are Hangul (3 UTF-8 bytes a character) rather than ASCII.
BatchInput(n, p, base, special, hangul) ==
    [i \in 1..n |->
        LET l == IF i = p THEN special ELSE base
        IN [id |-> i - 1, kr_len |-> l,
            kr_extra |-> IF hangul THEN 2 * l ELSE 0, bbox |-> NoBBox]]

BatchInputs ==
    {BatchInput(n, p, b, s, h) : n \in {0, 1, 2, 3, MaxBatchGroups - 1, MaxBatchGroups},
                                 p \in 0..3, b \in BaseKrLens,
                                 s \in SpecialKrLens, h \in BOOLEAN}

InitBatch ==
    /\ groups \in BatchInputs
    /\ config = [provider |-> "cerebras", available |-> FALSE]
    /\ CallIdle
    /\ RateIdle({Req}, "idle")
    /\ words = <<>>
    /\ GroupIdle
    /\ StoreIdle
    /\ SelectIdle
    /\ OrderIdle
    /\ LockIdle
    /\ phase = "input"

\* The caller hands over the ordered list and starts iterating.
PlanStart ==
    /\ phase = "input"
    /\ groups_list' = groups
    /\ phase' = "planning"
    /\ UNCHANGED <<groups, batches, planner, config, translator, batch_index,
                   attempt, delay, retry_hint, translations, all_translations,
                   batch_log, calls, sleeps, transient, malformed, faults, last_outcome>>
    /\ UNCHANGED <<rateVars, groupVars, storeVars, selectVars, orderVars, lockVars>>

\* One iteration of the for loop of lines 178-196.
PlanStep ==
    /\ phase = "planning"
    /\ planner.next <= Len(groups_list)
    /\ planner' = [st |-> BatchLoopBody(planner.st, groups_list[planner.next]),
                   next |-> planner.next + 1]
    /\ UNCHANGED <<groups, groups_list, batches, config, translator, batch_index,
                   attempt, delay, retry_hint, translations, all_translations,
                   batch_log, calls, sleeps, transient, malformed, faults, last_outcome, phase>>
    /\ UNCHANGED <<rateVars, groupVars, storeVars, selectVars, orderVars, lockVars>>

\* Lines 198-199: the loop is over.
PlanFinish ==
    /\ phase = "planning"
    /\ planner.next > Len(groups_list)
    /\ batches' = BatchEnd(planner.st)
    /\ phase' = "planned"
    /\ UNCHANGED <<groups, groups_list, planner, config, translator, batch_index,
                   attempt, delay, retry_hint, translations, all_translations,
                   batch_log, calls, sleeps, transient, malformed, faults, last_outcome>>
    /\ UNCHANGED <<rateVars, groupVars, storeVars, selectVars, orderVars, lockVars>>

NextBatch ==
    \/ PlanStart
    \/ PlanStep
    \/ PlanFinish

SpecBatch == InitBatch /\ [][NextBatch]_vars

----------------------------------------------------------------------------
(* SpecOrder: _order_groups_left_to_right (translate.py 202-252) on a      *)
(* bounded family of group lists, the column loop taken one item at a time. *)

\* Lines 205-229: annotate the groups and sort them by x_center, or return
\* at once when there is no group (lines 225-226).
OrderStart ==
    /\ phase = "order"
    /\ IF groups = <<>>
       THEN /\ groups_list' = groups
            /\ phase' = "ordered"
            /\ UNCHANGED <<annotated, columns>>
       ELSE /\ annotated' = SortedItems(groups)
            /\ columns' = <<>>
            /\ phase' = "placing"
            /\ UNCHANGED groups_list

\* Lines 229-243: one iteration of the column loop.
PlaceStep ==
    /\ phase = "placing"
    /\ annotated # <<>>
    /\ columns' = PlaceItem(columns, Head(annotated))
    /\ annotated' = Tail(annotated)
    /\ UNCHANGED <<groups_list, phase>>

\* Lines 247-252: sort the columns and their items, and return.
OrderFinish ==
    /\ phase = "placing"
    /\ annotated = <<>>
    /\ groups_list' = OrderedGroups(columns)
    /\ phase' = "ordered"
    /\ UNCHANGED <<annotated, columns>>

OrderOthers ==
    UNCHANGED <<groups, batches, planner, config, translator, batch_index,
                attempt, delay, retry_hint, translations, all_translations,
                batch_log, calls, sleeps, transient, malformed, faults,
                last_outcome, rateVars, groupVars, storeVars, selectVars, lockVars>>

MaxOrderGroups == 3

\* Boxes (x0, y0, x1, y1): narrow and wide groups at four x positions and
\* two heights on the page, and the empty default box.
OrderBoxes ==
    {<<x, y, x + w, y + 20>> : x \in {0, 60, 140, 300}, y \in {0, 50}, w \in {10, 100}}
    \cup {<<0, 0, 0, 0>>}

OrderInputs ==
    UNION {{[i \in 1..n |-> [id |-> i - 1, kr_len |-> 4, kr_extra |-> 8, bbox |-> b[i]]] :
                b \in [1..n -> OrderBoxes]} : n \in 0..MaxOrderGroups}

InitOrder ==
    /\ groups \in OrderInputs
    /\ config = [provider |-> "cerebras", available |-> FALSE]
    /\ CallIdle
    /\ RateIdle({Req}, "idle")
    /\ words = <<>>
    /\ GroupIdle
    /\ StoreIdle
    /\ SelectIdle
    /\ OrderIdle
    /\ LockIdle
    /\ phase = "order"

OrderBegin == OrderStart /\ OrderOthers

OrderPlace == PlaceStep /\ OrderOthers

OrderEnd == OrderFinish /\ OrderOthers

NextOrder ==
    \/ OrderBegin
    \/ OrderPlace
    \/ OrderEnd

SpecOrder == InitOrder /\ [][NextOrder]_vars

----------------------------------------------------------------------------
(* ContextStore (context_store.py).                                        *)
(* Strings are numbered: 0 is "", 1..9 are other texts, 10 + n is the      *)
(* decimal text of the number n.  A timestamp is a whole number.  A JSON   *)
(* value is a record [t, v] with t its type; a value that is missing from  *)
(* a dict has t = "absent".  The store file and its .tmp neighbour hold    *)
(* [kind, top, items]: kind "missing", "unreadable", "invalid" (not        *)
(* parsable, e.g. cut short) or "json" with the top-level type in `top`    *)
(* and, for an object, its members in `items`.                             *)

JStr(v) == [t |-> "str", v |-> v]

JNum(v) == [t |-> "num", v |-> v]

JAbsent == [t |-> "absent", v |-> 0]

JNull == [t |-> "null", v |-> 0]

\* An object that is not a list, with v keys.
JDict(v) == [t |-> "dict", v |-> v]

JList(elems) == [t |-> "list", elems |-> elems]

JEntry(kr, en, timestamp) ==
    [t |-> "object", kr |-> kr, en |-> en, timestamp |-> timestamp]

\* float(text) succeeds
ParsesAsFloat(v) == v >= 10

FloatOf(v) == v - 10

\* Lines 42-64: one entry of a stored list, as _load maps it.
LoadEntry(e, t_now) ==
    [kr |-> IF e.kr.t = "str" THEN e.kr.v ELSE 0,
     en |-> IF e.en.t = "str" THEN e.en.v ELSE 0,
     timestamp |->
        CASE e.timestamp.t = "num" -> e.timestamp.v
          [] e.timestamp.t = "str" /\ ParsesAsFloat(e.timestamp.v) -> FloatOf(e.timestamp.v)
          [] OTHER -> t_now]

\* Lines 41-42 on one member's value: `for entry in value` raises TypeError
\* on a number or null, and entry.get raises AttributeError on an element
\* that is not a dict (a list element, a character of a string, a key of
\* an object).
LoadValueRaises(value) ==
    CASE value.t = "list" -> \E i \in DOMAIN value.elems : value.elems[i].t # "object"
      [] value.t \in {"num", "null"} -> TRUE
      [] value.t = "str" -> value.v # 0
      [] value.t = "dict" -> value.v > 0
      [] OTHER -> TRUE

LoadItems(value, t_now) ==
    IF value.t = "list"
    THEN [i \in DOMAIN value.elems |-> LoadEntry(value.elems[i], t_now)]
    ELSE <<>>

\* ContextStore._load: [raised, data].
_load(f, t_now) ==
    IF f.kind # "json" \/ f.top # "object"
    THEN [raised |-> FALSE, data |-> <<>>]
    ELSE IF \E c \in DOMAIN f.items : LoadValueRaises(f.items[c])
    THEN [raised |-> TRUE, data |-> <<>>]
    ELSE [raised |-> FALSE,
          data |-> [c \in {k \in DOMAIN f.items : LoadItems(f.items[k], t_now) # <<>>} |->
                        LoadItems(f.items[c], t_now)]]

\* json.dump(self._data, fh, ensure_ascii=False) (line 73)
JsonDump(data) ==
    [kind |-> "json", top |-> "object",
     items |-> [c \in DOMAIN data |->
                  JList([i \in DOMAIN data[c] |->
                           JEntry(JStr(data[c][i].kr), JStr(data[c][i].en),
                                  JNum(data[c][i].timestamp))])]]

\* self._data.get(conversation_id, [])
HistoryOf(data, c) == IF c \in DOMAIN data THEN data[c] ELSE <<>>

\* entry.get("kr") is truthy
JTruthy(j) == j.t = "str" /\ j.v # 0

\* Line 92: the entry is kept
Qualifies(e) == JTruthy(e.kr) \/ JTruthy(e.en)

\* Lines 94-101
CleanEntry(e, t_now) ==
    [kr |-> IF e.kr.t = "absent" THEN 0 ELSE e.kr.v,
     en |-> IF e.en.t = "absent" THEN 0 ELSE e.en.v,
     timestamp |-> IF e.timestamp.t = "absent" THEN t_now ELSE e.timestamp.v]

\* Lines 90-102
RECURSIVE CleanEntries(_, _)
CleanEntries(entries, t_now) ==
    IF entries = <<>> THEN <<>>
    ELSE (IF Qualifies(Head(entries)) THEN <<CleanEntry(Head(entries), t_now)>> ELSE <<>>)
         \o CleanEntries(Tail(entries), t_now)

\* history[-k:] for k >= 0 (history[-0:] is the whole list)
LastSlice(history, k) ==
    IF k = 0 \/ k >= Len(history) THEN history
    ELSE SubSeq(history, Len(history) - k + 1, Len(history))

\* A trim that keeps the oldest entries instead.
Trim_KeepOldest(history, max) ==
    IF Len(history) > max THEN SubSeq(history, 1, max) ELSE history

\* Lines 108-109: if len(history) > max: del history[:-max]
\* (del history[:-0] deletes nothing)
Trim(history, max) ==
    IF Len(history) > max THEN LastSlice(history, max) ELSE history

\* Line 83: limit = limit or self._max_context_return; None is -1 here.
NoLimit == 0 - 1

EffectiveLimit(limit, default) == IF limit = NoLimit \/ limit = 0 THEN default ELSE limit

\* ContextStore.get_recent
get_recent(data, c, limit, default) ==
    IF c = "" THEN <<>>
    ELSE LastSlice(HistoryOf(data, c), EffectiveLimit(limit, default))

MaxStoreOps == 2

StoreRunning == store_pc \in {"ready", "replacing"}

\* ContextStore(path, max_entries, max_context_return): __init__ and _load.
\* A process starts (again) and builds its store from the file.
Construct ==
    /\ store_pc = "down"
    /\ LET loaded == _load(file, wall)
       IN IF loaded.raised
          THEN /\ store_pc' = "raised"
               /\ UNCHANGED <<_data, appended>>
          ELSE /\ store_pc' = "ready"
               /\ _data' = loaded.data
               /\ appended' = loaded.data
    /\ last_append' = "none"
    /\ recent' = NoRecent
    /\ wall' = wall + 1
    /\ UNCHANGED <<_max_entries, _max_context_return, file, tmp, store_ops>>
    /\ UNCHANGED <<callVars, rateVars, groupVars, selectVars, orderVars, lockVars, phase>>

\* ContextStore.append up to and including the write of the .tmp file
\* (lines 86-109 and 70-73).  `write` is how that write goes: "ok", "oserror"
\* (caught at line 75, the .tmp file is unlinked) or "died" (the process
\* dies while writing and leaves a .tmp file cut short).
AppendCall(c, entries, write) ==
    /\ store_pc = "ready"
    /\ store_ops < MaxStoreOps
    /\ store_ops' = store_ops + 1
    /\ recent' = NoRecent
    /\ LET clean_entries == CleanEntries(entries, wall)
       IN IF c = "" \/ entries = <<>> \/ clean_entries = <<>>
          THEN /\ write = "ok"
               /\ last_append' = "skipped"
               /\ UNCHANGED <<store_pc, _data, tmp, appended, wall>>
          ELSE LET history == Trim(HistoryOf(_data, c) \o clean_entries, _max_entries)
                   data == [k \in DOMAIN _data \cup {c} |->
                               IF k = c THEN history ELSE _data[k]]
               IN /\ wall' = wall + 1
                  /\ appended' = [k \in DOMAIN appended \cup {c} |->
                                    IF k = c THEN HistoryOf(appended, c) \o clean_entries
                                    ELSE appended[k]]
                  /\ CASE write = "ok" ->
                            /\ _data' = data
                            /\ tmp' = JsonDump(data)
                            /\ store_pc' = "replacing"
                            /\ last_append' = "writing"
                       [] write = "oserror" ->
                            /\ _data' = data
                            /\ tmp' = NoFile
                            /\ store_pc' = "ready"
                            /\ last_append' = "write_failed"
                       [] write = "died" ->
                            /\ _data' = <<>>
                            /\ tmp' = [kind |-> "invalid", top |-> "", items |-> <<>>]
                            /\ store_pc' = "down"
                            /\ last_append' = "none"
    /\ UNCHANGED <<_max_entries, _max_context_return, file>>
    /\ UNCHANGED <<callVars, rateVars, groupVars, selectVars, orderVars, lockVars, phase>>

\* tmp_path.replace(self._path) (line 74), and its OSError (lines 75-76).
PersistReplace ==
    /\ store_pc = "replacing"
    /\ \/ /\ file' = tmp
          /\ last_append' = "persisted"
       \/ /\ file' = file
          /\ last_append' = "write_failed"
    /\ tmp' = NoFile
    /\ store_pc' = "ready"
    /\ UNCHANGED <<_data, _max_entries, _max_context_return, appended, recent, wall,
                   store_ops>>
    /\ UNCHANGED <<callVars, rateVars, groupVars, selectVars, orderVars, lockVars, phase>>

\* ContextStore.get_recent
GetRecent(c, limit) ==
    /\ store_pc = "ready"
    /\ recent' = [conv |-> c, limit |-> limit,
                  result |-> get_recent(_data, c, limit, _max_context_return)]
    /\ UNCHANGED <<store_pc, _data, _max_entries, _max_context_return, file, tmp,
                   appended, last_append, wall, store_ops>>
    /\ UNCHANGED <<callVars, rateVars, groupVars, selectVars, orderVars, lockVars, phase>>

\* The process dies; what was in memory is gone, the files stay.
Crash ==
    /\ StoreRunning
    /\ store_ops < MaxStoreOps
    /\ store_ops' = store_ops + 1
    /\ store_pc' = "down"
    /\ _data' = <<>>
    /\ appended' = <<>>
    /\ last_append' = "none"
    /\ recent' = NoRecent
    /\ UNCHANGED <<_max_entries, _max_context_return, file, tmp, wall>>
    /\ UNCHANGED <<callVars, rateVars, groupVars, selectVars, orderVars, lockVars, phase>>

----------------------------------------------------------------------------
(* SpecStore: one store file, the processes that open it one after the     *)
(* other, and their append and get_recent calls.                           *)

MaxRetained == 2

ReturnLimits == {1, 2}

Conversations == {"", "a", "b"}

Limits == {NoLimit, 0, 1, 2, 3}

\* Entries a caller appends: one with nothing to keep, one with a source
\* text only, one with a translation and its own timestamp.
EmptyEntry == JEntry(JStr(0), JAbsent, JAbsent)

KrEntry == JEntry(JStr(1), JAbsent, JAbsent)

EnEntry == JEntry(JAbsent, JStr(2), JNum(5))

AppendArgs == {<<>>, <<EmptyEntry>>, <<KrEntry>>, <<KrEntry, EmptyEntry, EnEntry>>}

JsonFile(top, items) == [kind |-> "json", top |-> top, items |-> items]

\* What a conversation's member of the stored object can hold.
StoredValues ==
    {JList(<<>>),
     JList(<<JEntry(JStr(1), JStr(2), JNum(3))>>),
     JList(<<JEntry(JNum(1), JNull, JStr(1))>>),
     JList(<<JEntry(JAbsent, JStr(2), JStr(14))>>),
     JList(<<JEntry(JStr(1), JStr(2), JNum(3)), JNum(7)>>),
     JNum(7), JNull, JStr(0), JStr(1), JDict(0), JDict(1)}

\* The store file as a new process finds it.
StoreFiles ==
    {NoFile,
     [kind |-> "unreadable", top |-> "", items |-> <<>>],
     [kind |-> "invalid", top |-> "", items |-> <<>>],
     JsonFile("list", <<>>),
     JsonFile("num", <<>>),
     JsonFile("object", <<>>)}
    \cup {JsonFile("object", [c \in {"a"} |-> v]) : v \in StoredValues}

InitStore ==
    /\ groups = <<>>
    /\ config = [provider |-> "cerebras", available |-> FALSE]
    /\ CallIdle
    /\ RateIdle({Req}, "idle")
    /\ words = <<>>
    /\ GroupIdle
    /\ SelectIdle
    /\ OrderIdle
    /\ LockIdle
    /\ phase = "store"
    /\ store_pc = "down"
    /\ _data = <<>>
    /\ _max_entries \in 0..MaxRetained
    /\ _max_context_return \in ReturnLimits
    /\ file \in StoreFiles
    /\ tmp = NoFile
    /\ appended = <<>>
    /\ last_append = "none"
    /\ recent = NoRecent
    /\ wall = 0
    /\ store_ops = 0

StoreAppend ==
    \E c \in Conversations, entries \in AppendArgs, write \in {"ok", "oserror", "died"} :
        AppendCall(c, entries, write)

StoreLookup == \E c \in Conversations, limit \in Limits : GetRecent(c, limit)

NextStore ==
    \/ Construct
    \/ StoreAppend
    \/ PersistReplace
    \/ StoreLookup
    \/ Crash

SpecStore == InitStore /\ [][NextStore]_vars

----------------------------------------------------------------------------
(* SpecShared: threads that call append and get_recent on one             *)
(* ContextStore, one step per statement inside `with self._lock`            *)
(* (context_store.py 81-84 and 105-110).  list.extend and the slice         *)
(* deletion are single steps, as they are under the interpreter lock.       *)

StoreThreads == 2

MaxSharedCalls == 3

Clients == 1..StoreThreads

NoFrame == [conv |-> "", entries |-> <<>>, limit |-> 0]

\* A lock that lets every thread in.
StoreLockFree_Always == TRUE

\* threading.Lock: `with self._lock` enters when no thread holds it.
StoreLockFree == _lock = 0

\* append, lines 87-104: the early returns, now = time.time(), and the
\* clean entries.
ShAppendEnter(t, c, entries) ==
    /\ pc[t] = "idle"
    /\ store_ops < MaxSharedCalls
    /\ store_ops' = store_ops + 1
    /\ LET clean_entries == CleanEntries(entries, wall)
       IN IF c = "" \/ entries = <<>> \/ clean_entries = <<>>
          THEN UNCHANGED <<pc, frame, wall>>
          ELSE /\ pc' = [pc EXCEPT ![t] = "ap_lock"]
               /\ frame' = [frame EXCEPT ![t] =
                               [conv |-> c, entries |-> clean_entries, limit |-> 0]]
               /\ wall' = wall + 1
    /\ UNCHANGED <<_lock, _data, appended, file, last_append, recent>>

\* get_recent, lines 79-80: the early return for an empty conversation id.
ShRecentEnter(t, c, limit) ==
    /\ pc[t] = "idle"
    /\ store_ops < MaxSharedCalls
    /\ store_ops' = store_ops + 1
    /\ IF c = ""
       THEN /\ recent' = [conv |-> c, limit |-> limit, result |-> <<>>]
            /\ UNCHANGED <<pc, frame>>
       ELSE /\ pc' = [pc EXCEPT ![t] = "gr_lock"]
            /\ frame' = [frame EXCEPT ![t] = [conv |-> c, entries |-> <<>>, limit |-> limit]]
            /\ UNCHANGED recent
    /\ UNCHANGED <<_lock, _data, appended, file, last_append, wall>>

\* Lines 81 and 105: with self._lock.
ShAcquire(t) ==
    /\ pc[t] \in {"ap_lock", "gr_lock"}
    /\ StoreLockFree
    /\ _lock' = t
    /\ pc' = [pc EXCEPT ![t] = IF pc[t] = "ap_lock" THEN "ap_extend" ELSE "gr_read"]
    /\ UNCHANGED <<frame, _data, appended, file, last_append, recent, wall, store_ops>>

\* Lines 106-107: history = setdefault(conversation_id, []); history.extend(...)
ShExtend(t) ==
    /\ pc[t] = "ap_extend"
    /\ LET c == frame[t].conv
       IN /\ _data' = [k \in DOMAIN _data \cup {c} |->
                          IF k = c THEN HistoryOf(_data, c) \o frame[t].entries
                          ELSE _data[k]]
          /\ appended' = [k \in DOMAIN appended \cup {c} |->
                             IF k = c THEN HistoryOf(appended, c) \o frame[t].entries
                             ELSE appended[k]]
    /\ pc' = [pc EXCEPT ![t] = "ap_trim"]
    /\ UNCHANGED <<_lock, frame, file, last_append, recent, wall, store_ops>>

\* Lines 108-109: the trim.
ShTrim(t) ==
    /\ pc[t] = "ap_trim"
    /\ _data' = [_data EXCEPT ![frame[t].conv] = Trim(@, _max_entries)]
    /\ pc' = [pc EXCEPT ![t] = "ap_persist"]
    /\ UNCHANGED <<_lock, frame, appended, file, last_append, recent, wall, store_ops>>

\* Line 110 and the end of the with block: _persist() writes and replaces
\* the file, or hits an OSError and leaves it; the lock is released.
ShPersist(t) ==
    /\ pc[t] = "ap_persist"
    /\ \/ /\ file' = JsonDump(_data)
          /\ last_append' = "persisted"
       \/ /\ file' = file
          /\ last_append' = "write_failed"
    /\ _lock' = 0
    /\ frame' = [frame EXCEPT ![t] = NoFrame]
    /\ pc' = [pc EXCEPT ![t] = "idle"]
    /\ UNCHANGED <<_data, appended, recent, wall, store_ops>>

\* Lines 82-84: read the history, slice it, release the lock and return.
ShRead(t) ==
    /\ pc[t] = "gr_read"
    /\ recent' = [conv |-> frame[t].conv, limit |-> frame[t].limit,
                  result |-> get_recent(_data, frame[t].conv, frame[t].limit,
                                        _max_context_return)]
    /\ _lock' = 0
    /\ frame' = [frame EXCEPT ![t] = NoFrame]
    /\ pc' = [pc EXCEPT ![t] = "idle"]
    /\ UNCHANGED <<_data, appended, file, last_append, wall, store_ops>>

SharedOthers ==
    UNCHANGED <<callVars, gated, now, wake, lock, _last_api_call, clock, stamps,
                groupVars, selectVars, orderVars, phase,
                store_pc, _max_entries, _max_context_return, tmp>>

\* An entry with a translation only.
EnOnlyEntry == JEntry(JAbsent, JStr(2), JAbsent)

SharedArgs == {<<EmptyEntry>>, <<KrEntry>>, <<KrEntry, EmptyEntry, EnOnlyEntry>>}

SharedLimits == {NoLimit, 1, 3}

\* The store was constructed on a path without a file.
InitShared ==
    /\ groups = <<>>
    /\ config = [provider |-> "cerebras", available |-> FALSE]
    /\ CallIdle
    /\ RateIdle(Clients, "idle")
    /\ words = <<>>
    /\ GroupIdle
    /\ SelectIdle
    /\ OrderIdle
    /\ phase = "shared"
    /\ store_pc = "ready"
    /\ _data = <<>>
    /\ _max_entries \in 0..MaxRetained
    /\ _max_context_return \in ReturnLimits
    /\ file = NoFile
    /\ tmp = NoFile
    /\ appended = <<>>
    /\ last_append = "none"
    /\ recent = NoRecent
    /\ wall = 1
    /\ store_ops = 0
    /\ _lock = 0
    /\ frame = [t \in Clients |-> NoFrame]

ClientAppend ==
    (\E t \in Clients, c \in {"", "a"}, entries \in SharedArgs : ShAppendEnter(t, c, entries))
    /\ SharedOthers

ClientRecent ==
    (\E t \in Clients, c \in {"", "a"}, limit \in SharedLimits : ShRecentEnter(t, c, limit))
    /\ SharedOthers

ClientAcquire == (\E t \in Clients : ShAcquire(t)) /\ SharedOthers

ClientExtend == (\E t \in Clients : ShExtend(t)) /\ SharedOthers

ClientTrim == (\E t \in Clients : ShTrim(t)) /\ SharedOthers

ClientPersist == (\E t \in Clients : ShPersist(t)) /\ SharedOthers

ClientRead == (\E t \in Clients : ShRead(t)) /\ SharedOthers

NextShared ==
    \/ ClientAppend
    \/ ClientRecent
    \/ ClientAcquire
    \/ ClientExtend
    \/ ClientTrim
    \/ ClientPersist
    \/ ClientRead

SpecShared == InitShared /\ [][NextShared]_vars

----------------------------------------------------------------------------
(* SpecSelect: request threads inside _get_translator (translate.py       *)
(* 497-520), one step per statement that reads or writes the global.  The  *)
(* /analyze endpoint is a plain def (main.py 53-79), which the framework   *)
(* runs on worker threads, and _get_translator takes no lock.  A translator *)
(* object is its position in `objects`.                                    *)

SelectThreads == 2

MaxSelectCalls == 3

Selectors == 1..SelectThreads

\* Calls begun so far: the finished ones and the ones under way.
SelectCalls == Len(returned) + Cardinality({t \in Selectors : pc[t] # "idle"})

\* A request thread calls _get_translator().
SelEnter(t) ==
    /\ pc[t] = "idle"
    /\ SelectCalls < MaxSelectCalls
    /\ pc' = [pc EXCEPT ![t] = "check"]
    /\ UNCHANGED selectVars

\* Lines 499-500: return the memoized instance, or go on to build one.
SelCheck(t) ==
    /\ pc[t] = "check"
    /\ IF _translator_instance # 0
       THEN /\ returned' = Append(returned, [by |-> t, obj |-> _translator_instance])
            /\ pc' = [pc EXCEPT ![t] = "idle"]
       ELSE /\ returned' = returned
            /\ pc' = [pc EXCEPT ![t] = "construct"]
    /\ UNCHANGED <<_translator_instance, local_translator, objects, warnings>>

\* Lines 502-510: construct the provider the configuration names.
SelConstruct(t) ==
    /\ pc[t] = "construct"
    /\ objects' = Append(objects,
                         [kind |-> IF config.provider = "gemini" THEN "gemini" ELSE "cerebras",
                          by |-> t])
    /\ local_translator' = [local_translator EXCEPT ![t] = Len(objects')]
    /\ pc' = [pc EXCEPT ![t] = "available"]
    /\ UNCHANGED <<_translator_instance, warnings, returned>>

\* Lines 512-517: if the provider is not available, log the warning and
\* construct the FallbackTranslator.
SelAvailable(t) ==
    /\ pc[t] = "available"
    /\ IF config.available
       THEN UNCHANGED <<objects, local_translator, warnings>>
       ELSE /\ warnings' = warnings + 1
            /\ objects' = Append(objects, [kind |-> "fallback", by |-> t])
            /\ local_translator' = [local_translator EXCEPT ![t] = Len(objects')]
    /\ pc' = [pc EXCEPT ![t] = "store"]
    /\ UNCHANGED <<_translator_instance, returned>>

\* Lines 519-520: _translator_instance = translator; return translator.
SelStore(t) ==
    /\ pc[t] = "store"
    /\ _translator_instance' = local_translator[t]
    /\ returned' = Append(returned, [by |-> t, obj |-> local_translator[t]])
    /\ pc' = [pc EXCEPT ![t] = "idle"]
    /\ UNCHANGED <<local_translator, objects, warnings>>

InitSelect ==
    /\ groups = <<>>
    /\ config \in Configs
    /\ CallIdle
    /\ RateIdle(Selectors, "idle")
    /\ words = <<>>
    /\ GroupIdle
    /\ StoreIdle
    /\ _translator_instance = 0
    /\ local_translator = [t \in Selectors |-> 0]
    /\ objects = <<>>
    /\ warnings = 0
    /\ returned = <<>>
    /\ OrderIdle
    /\ LockIdle
    /\ phase = "select"

SelectOthers ==
    UNCHANGED <<callVars, gated, now, wake, lock, _last_api_call, clock, stamps,
                groupVars, storeVars, orderVars, lockVars, phase>>

SelectorEnter == (\E t \in Selectors : SelEnter(t)) /\ SelectOthers

SelectorCheck == (\E t \in Selectors : SelCheck(t)) /\ SelectOthers

SelectorConstruct == (\E t \in Selectors : SelConstruct(t)) /\ SelectOthers

SelectorAvailable == (\E t \in Selectors : SelAvailable(t)) /\ SelectOthers

SelectorStore == (\E t \in Selectors : SelStore(t)) /\ SelectOthers

NextSelect ==
    \/ SelectorEnter
    \/ SelectorCheck
    \/ SelectorConstruct
    \/ SelectorAvailable
    \/ SelectorStore

SpecSelect == InitSelect /\ [][NextSelect]_vars

----------------------------------------------------------------------------
(* Properties of translate_groups_kr_to_en, checked under Spec.            *)

\* The groups and the outcome of the batches that have been merged.
Returned == pc[Req] = "done"

MergedBatches == DOMAIN batch_log

\* C1: for input groups with pairwise-distinct ids and every behaviour of
\* the provider on each batch (full response, missing ids, ids that are not
\* in the batch, failure), the mapping returned by translate_groups_kr_to_en
\* has exactly the input group ids as its keys.
C1_KeySetIsInputIds ==
    Returned => DOMAIN all_translations = InputIds

\* A call of two batches returned: one batch failed and the other's response
\* held ids that are not in the batch.
C1_Witness ==
    /\ Returned
    /\ Len(batches) = 2
    /\ \E b \in MergedBatches : batch_log[b].failed
    /\ \E b \in MergedBatches : ForeignId \in DOMAIN batch_log[b].dict

\* C2 as claimed: translate_groups_kr_to_en never raises for a
\* provider-originated outcome of a batch call (network or HTTP error,
\* rate-limit response, empty response, unparsable body, body of the wrong
\* shape), with either remote provider.
C2_NeverRaises == pc[Req] # "raised"

\* C4 as claimed: a group whose id is absent from its batch's successful
\* response, and every group of a failed batch, is mapped to its own source
\* text; a group whose id is present in a successful response is mapped to
\* the returned translation.
C4_ReturnedTranslationUsed ==
    Returned =>
        \A b \in MergedBatches : \A i \in DOMAIN batches[b].groups :
            LET g == batches[b].groups[i]
                resp == batch_log[b]
            IN IF ~resp.failed /\ g.id \in DOMAIN resp.dict
               THEN all_translations[g.id] = resp.dict[g.id]
               ELSE all_translations[g.id] = KrText(g)

\* C4, amended: a group whose id is absent from its batch's successful
\* response, and every group of a failed batch, is mapped to its own source
\* text; a group whose id is present in a successful response is mapped to
\* the returned translation when that translation is not empty, and to its
\* own source text when it is empty; a failed batch leaves the values of
\* the groups of the other batches as their own batch determines them.
C4_MergedValues ==
    Returned =>
        \A b \in MergedBatches : \A i \in DOMAIN batches[b].groups :
            LET g == batches[b].groups[i]
                resp == batch_log[b]
            IN IF ~resp.failed /\ g.id \in DOMAIN resp.dict /\ Truthy(resp.dict[g.id])
               THEN all_translations[g.id] = resp.dict[g.id]
               ELSE all_translations[g.id] = KrText(g)

\* A call of two batches returned: one batch failed, the other's response
\* translated its group to the empty string, and that group has a source
\* text.
C4_Witness ==
    /\ Returned
    /\ Len(batches) = 2
    /\ \E b \in MergedBatches : batch_log[b].failed
    /\ \E b \in MergedBatches : \E i \in DOMAIN batches[b].groups :
          LET g == batches[b].groups[i]
          IN /\ ~batch_log[b].failed
             /\ g.id \in DOMAIN batch_log[b].dict
             /\ batch_log[b].dict[g.id] = EmptyText
             /\ KrText(g) # EmptyText

\* The dict the latest network call's response parses to.
LastResponseDict ==
    ParseItems(ResponseItems(last_outcome.variant, CurrentBatch.payload, InputIds))

\* C5: for each batch and each remote provider the network call is made at
\* most MAX_RETRIES times and attempts stop at the first successful
\* response: after transient failures on attempts 1 and 2 and a success on
\* attempt 3 the provider has been called exactly 3 times and the batch
\* result is the third response; after a transient failure on every attempt
\* it has been called exactly 3 times and the batch is degraded to source
\* text without an exception reaching the caller.
C5_RetryBound ==
    /\ calls <= MAX_RETRIES
    /\ pc[Req] # "start" /\ translator \in {"cerebras", "gemini"} /\ malformed = 0 =>
          /\ pc[Req] # "raised"
          /\ pc[Req] = "merge" /\ ~translations.failed =>
                /\ calls = transient + 1
                /\ last_outcome.kind = "ok"
                /\ translations.dict = LastResponseDict
          /\ pc[Req] = "merge" /\ translations.failed =>
                /\ transient = MAX_RETRIES
                /\ calls = MAX_RETRIES
                /\ translations.dict = EmptyDict
          /\ transient = MAX_RETRIES /\ pc[Req] \in {"next_batch", "done"} =>
                /\ batch_log[batch_index - 1].failed
                /\ \A i \in DOMAIN batches[batch_index - 1].groups :
                      LET g == batches[batch_index - 1].groups[i]
                      IN all_translations[g.id] = KrText(g)

\* A batch whose first two calls failed transiently and whose third call
\* succeeded is about to be merged.
C5_Witness ==
    /\ pc[Req] = "merge"
    /\ transient = 2
    /\ malformed = 0
    /\ calls = MAX_RETRIES
    /\ ~translations.failed
    /\ translations.dict # EmptyDict

\* C6 as claimed: for both remote providers, when a call completes but its
\* body is malformed (unparsable JSON, empty choices/candidates, content of
\* the wrong shape), no further attempt is made for the batch: the provider
\* is called exactly once for it, no backoff sleep is taken, and the batch
\* is treated as failed at once.
C6_MalformedNotRetried ==
    malformed > 0 =>
        /\ pc[Req] \in {"merge", "next_batch", "done"}
        /\ calls = 1
        /\ sleeps = <<>>
        /\ pc[Req] = "merge" => translations.failed

\* C8 as claimed: every network call of a remote provider, retries
\* included, is made only after that attempt's own acquisition of the
\* shared rate limiter.
C8_EveryCallGated == pc[Req] = "call" => gated[Req]

\* C15: the configured name "gemini" selects the Gemini provider, "cerebras"
\* and every unknown name select the Cerebras provider, and when the selected
\* provider reports is_available() = false the echo provider is substituted;
\* with the echo provider in effect translate_groups_kr_to_en performs no
\* network call and maps every input group id to that group's own source
\* text.
C15_SelectionAndEcho ==
    pc[Req] # "start" =>
        /\ config.available /\ config.provider = "gemini" => translator = "gemini"
        /\ config.available /\ config.provider # "gemini" => translator = "cerebras"
        /\ ~config.available => translator = "fallback"
        /\ translator = "fallback" =>
              /\ calls = 0
              /\ last_outcome = NoOutcome
              /\ stamps = <<>>
              /\ pc[Req] \notin {"attempt", "rl_lock", "rl_check", "rl_sleep", "rl_record",
                                  "call", "backoff"}
              /\ Returned =>
                    /\ DOMAIN all_translations = InputIds
                    /\ \A i \in DOMAIN groups : all_translations[groups[i].id] = KrText(groups[i])

\* A call configured with an unknown provider name whose provider is not
\* available returned the source texts of two groups.
C15_Witness ==
    /\ Returned
    /\ config.provider = "deepl"
    /\ ~config.available
    /\ translator = "fallback"
    /\ Len(groups) = 2
    /\ \E i \in DOMAIN groups : KrText(groups[i]) # EmptyText
    /\ Len(batch_log) = Len(batches)

\* The request thread is inside translate_batch or the merge loop of the
\* batch numbered batch_index.
InBatch ==
    pc[Req] \in {"attempt", "rl_lock", "rl_check", "rl_sleep", "rl_record",
                 "call", "backoff", "merge"}

\* The ids of the groups of the batches before batch k.
IdsBefore(k) ==
    {batches[b].groups[i].id : <<b, i>> \in
        {q \in (1..(k - 1)) \X (1..Len(groups_list)) :
            q[1] \in DOMAIN batches /\ q[2] \in DOMAIN batches[q[1]].groups}}

\* C19: within one translate_groups_kr_to_en call the batches are dispatched
\* one at a time in reading order: while an attempt for batch k is under way
\* every batch before k has finished (returned a response, failed or
\* exhausted its attempts) and has had its results merged, no later batch
\* has been started, and at most one provider call is in flight.
C19_BatchesOneAtATime ==
    /\ InBatch \/ pc[Req] = "next_batch" =>
          /\ Len(batch_log) = batch_index - 1
          /\ DOMAIN all_translations = IdsBefore(batch_index)
    /\ InBatch => batch_index \in DOMAIN batches
    /\ Returned => Len(batch_log) = Len(batches)
    /\ Cardinality({t \in DOMAIN pc : pc[t] = "call"}) <= 1

\* The network call of the second batch is in flight after the first batch
\* failed and was merged.
C19_Witness ==
    /\ pc[Req] = "call"
    /\ batch_index = 2
    /\ Len(batches) = 2
    /\ batch_log[1].failed
    /\ DOMAIN all_translations = {batches[1].groups[1].id}

\* C20: in the retry loop of each remote provider, the Gemini HTTP 429 path
\* included, the first sleep of a batch is the initial delay D; after each
\* sleep the delay is max(hint, 1.5 * delay) when the failure slept on
\* carried a Retry-After hint and 1.5 * delay otherwise, so each sleep is
\* the delay the previous sleep left behind, multiplied once per failed
\* attempt.
C20_BackoffSequence ==
    /\ sleeps # <<>> => sleeps[1] = InitialDelay
    /\ \A k \in 2..Len(sleeps) :
          \/ sleeps[k] = TimesOneAndHalf(sleeps[k - 1])
          \/ \E h \in RetryAfterHints :
                /\ h.present
                /\ sleeps[k] = Max2(HintUnits(h), TimesOneAndHalf(sleeps[k - 1]))
    /\ pc[Req] = "attempt" /\ sleeps # <<>> =>
          delay = (IF last_outcome.hint.present
                   THEN Max2(HintUnits(last_outcome.hint), TimesOneAndHalf(sleeps[Len(sleeps)]))
                   ELSE TimesOneAndHalf(sleeps[Len(sleeps)]))

----------------------------------------------------------------------------
(* Properties of _get_translator, checked under SpecSelect.                *)

\* The provider objects constructed at lines 504-510.
ProviderObjects == {k \in DOMAIN objects : objects[k].kind # "fallback"}

\* C14: the provider selection is made at most once per process: for any
\* interleaving of concurrent first calls to _get_translator at most one
\* provider object is constructed, every call, concurrent or later, returns
\* the same object, and the unavailable-provider warning is logged at most
\* once.
C14_SelectedOnce ==
    /\ Cardinality(ProviderObjects) <= 1
    /\ \A i, j \in DOMAIN returned : returned[i].obj = returned[j].obj
    /\ warnings <= 1

\* C31: a translation that the provider returns as an empty string is never
\* placed in the result: translate_groups_kr_to_en puts the group's source
\* text in its place, so for every group with a non-empty source text the
\* result value is non-empty, and a result value is empty only when the
\* group's source text is empty.
C31_EmptyTranslationReplaced ==
    Returned =>
        \A i \in DOMAIN groups :
            LET g == groups[i]
                value == all_translations[g.id]
            IN /\ value # NoneText
               /\ g.kr_len > 0 => value # EmptyText
               /\ value = EmptyText => g.kr_len = 0
               /\ \A b \in MergedBatches :
                     /\ ~batch_log[b].failed
                     /\ g.id \in DOMAIN batch_log[b].dict
                     /\ batch_log[b].dict[g.id] = EmptyText
                     /\ \E k \in DOMAIN batches[b].groups : batches[b].groups[k] = g
                     => value = [kind |-> "kr", of |-> g.id] \/ g.kr_len = 0

\* A call returned after a provider translated a group that has a source
\* text to the empty string: the result holds the source text for it, and
\* the other group, which has no source text, was translated.
C31_Witness ==
    /\ Returned
    /\ Len(groups) = 2
    /\ \E i, j \in DOMAIN groups :
          /\ groups[i].kr_len > 0
          /\ groups[j].kr_len = 0
          /\ all_translations[groups[i].id] = [kind |-> "kr", of |-> groups[i].id]
          /\ all_translations[groups[j].id] = EnText(groups[j].id)
          /\ \E b \in MergedBatches :
                /\ ~batch_log[b].failed
                /\ groups[i].id \in DOMAIN batch_log[b].dict
                /\ batch_log[b].dict[groups[i].id] = EmptyText

----------------------------------------------------------------------------
(* Properties of _order_groups_left_to_right, checked under SpecOrder.     *)

\* Doubled x-center and y-center of a group, and its doubled tolerance
\* max(1.5 * width, 64), the width and height being at least 1.
XCenter2(g) == 2 * g.bbox[1] + Max2(g.bbox[3] - g.bbox[1], 1)

YCenter2(g) == 2 * g.bbox[2] + Max2(g.bbox[4] - g.bbox[2], 1)

Tolerance2(g) == Max2(3 * Max2(g.bbox[3] - g.bbox[1], 1), 128)

\* The groups of column k, their number, and the sum of their x-centers.
Members(k) == [i \in DOMAIN columns[k].items |-> columns[k].items[i].group]

XSum(k) == SumSeq([i \in DOMAIN Members(k) |-> XCenter2(Members(k)[i])])

\* The x-center of g is within the widest tolerance seen in column k of the
\* mean x-center of the column's members.
NearColumn(k, g) ==
    LET n == Len(Members(k))
        tol == SetMax({Tolerance2(Members(k)[i]) : i \in DOMAIN Members(k)})
    IN Abs(XCenter2(g) * n - XSum(k)) <= tol * n

ColumnOf(g) == CHOOSE k \in DOMAIN columns : \E i \in DOMAIN Members(k) : Members(k)[i] = g

\* C25: _order_groups_left_to_right returns a permutation of its input
\* arranged column by column: each group joins the first existing column
\* whose running x-center is within tolerance of the group's x-center, else
\* opens a new column; a column's running x-center is the arithmetic mean of
\* its members' x-centers; columns appear in ascending order of final
\* x-center, and within a column groups appear in ascending y-center order.
C25_ColumnOrder ==
    /\ [](phase \in {"placing", "ordered"} /\ groups # <<>> =>
            \A k \in DOMAIN columns :
                columns[k].xn * Len(Members(k)) = columns[k].xd * XSum(k))
    /\ [](phase = "ordered" =>
            /\ Len(groups_list) = Len(groups)
            /\ \A i \in DOMAIN groups : \E j \in DOMAIN groups_list : groups_list[j] = groups[i]
            /\ \A i, j \in DOMAIN groups_list :
                  i < j =>
                    LET a == ColumnOf(groups_list[i])
                        b == ColumnOf(groups_list[j])
                    IN IF a = b
                       THEN YCenter2(groups_list[i]) <= YCenter2(groups_list[j])
                       ELSE /\ XSum(a) * Len(Members(b)) <= XSum(b) * Len(Members(a))
                            /\ \A m \in DOMAIN groups_list :
                                  m > j => ColumnOf(groups_list[m]) # a)
    /\ [][phase = "placing" /\ annotated # <<>> =>
            LET g == Head(annotated).group
                near == {k \in DOMAIN columns : NearColumn(k, g)}
            IN IF near = {}
               THEN /\ Len(columns') = Len(columns) + 1
                    /\ \A k \in DOMAIN columns : columns'[k] = columns[k]
                    /\ Len(columns'[Len(columns')].items) = 1
                    /\ columns'[Len(columns')].items[1].group = g
               ELSE LET k == SetMin(near)
                    IN /\ Len(columns') = Len(columns)
                       /\ \A j \in DOMAIN columns : j # k => columns'[j] = columns[j]
                       /\ Len(columns'[k].items) = Len(columns[k].items) + 1
                       /\ columns'[k].items[Len(columns'[k].items)].group = g]_vars

\* A call returned its three groups in another order than it was given
\* them, in two columns, one of which holds a narrow and a wide group with
\* different x-centers, the lower one given first.
C25_Witness ==
    /\ phase = "ordered"
    /\ Len(groups) = 3
    /\ groups_list # groups
    /\ Len(columns) = 2
    /\ \E k \in DOMAIN columns :
          /\ Len(Members(k)) = 2
          /\ XCenter2(Members(k)[1]) # XCenter2(Members(k)[2])
          /\ Tolerance2(Members(k)[1]) # Tolerance2(Members(k)[2])
          /\ YCenter2(Members(k)[1]) > YCenter2(Members(k)[2])

----------------------------------------------------------------------------
(* Properties of ContextStore, checked under SpecStore.                    *)

\* The last min(n, Len(s)) elements of s, in order.
LastN(s, n) == [i \in 1..(IF n < Len(s) THEN n ELSE Len(s)) |->
                   s[Len(s) - (IF n < Len(s) THEN n ELSE Len(s)) + i]]

\* C11: after any sequence of append calls on a ContextStore with
\* max_entries = N >= 1, the stored history of a conversation is exactly the
\* last min(N, total) qualifying entries ever appended to it (entries with a
\* non-empty kr or en), in append order: the oldest are discarded first.
C11_HistoryIsLastN ==
    StoreRunning /\ _max_entries >= 1 =>
        /\ DOMAIN _data = DOMAIN appended
        /\ \A c \in DOMAIN appended : _data[c] = LastN(appended[c], _max_entries)

\* A conversation has received more entries than the store retains, over
\* two append calls, and the store retains two.
C11_Witness ==
    /\ store_pc = "ready"
    /\ _max_entries = 2
    /\ store_ops >= 2
    /\ last_append = "persisted"
    /\ \E c \in DOMAIN appended :
          /\ Len(appended[c]) > _max_entries
          /\ Len(_data[c]) = _max_entries
          /\ _data[c][1] # _data[c][2]

\* The file is unreadable or corrupt: not JSON, not an object at the top,
\* a conversation whose value is not a list, a list element that is not an
\* object.
CorruptFile(f) ==
    \/ f.kind \in {"unreadable", "invalid"}
    \/ f.kind = "json" /\ f.top # "object"
    \/ /\ f.kind = "json"
       /\ f.top = "object"
       /\ \E c \in DOMAIN f.items :
             \/ f.items[c].t # "list"
             \/ \E i \in DOMAIN f.items[c].elems : f.items[c].elems[i].t # "object"

\* C16 as claimed: constructing a ContextStore on a path whose file is
\* unreadable or corrupt never raises and yields an empty store, for every
\* form of corruption.
C16_CorruptFileGivesEmptyStore ==
    /\ store_pc # "raised"
    /\ store_pc = "ready" /\ last_append = "none" /\ CorruptFile(file) => _data = <<>>

\* C17 as claimed: get_recent(conversation_id, limit) returns at most
\* `limit` entries for every integer limit >= 0 (at most max_context_return
\* when limit is omitted), the returned list is exactly the most recently
\* appended entries of the conversation in append order, and it is empty
\* for an empty or unknown conversation id.
C17_RecentWithinLimit ==
    recent # NoRecent =>
        LET history == HistoryOf(_data, recent.conv)
            bound == IF recent.limit = NoLimit THEN _max_context_return ELSE recent.limit
        IN /\ Len(recent.result) <= bound
           /\ recent.result = LastN(history, Len(recent.result))
           /\ Len(recent.result) = (IF bound < Len(history) THEN bound ELSE Len(history))
           /\ recent.conv = "" \/ recent.conv \notin DOMAIN _data => recent.result = <<>>

\* C18 as claimed: after any append call that has returned, a new
\* ContextStore constructed on the same path holds, for every conversation
\* id, the same entries in the same order as the original store's in-memory
\* history; and the store file is never left cut short by a write.
C18_RestartSeesAppended ==
    /\ store_pc = "ready" /\ last_append \in {"persisted", "write_failed"} =>
          /\ ~_load(file, wall).raised
          /\ _load(file, wall).data = _data
    /\ last_append \in {"persisted", "write_failed"} => file.kind # "invalid"

\* C28: in every reachable state of a ContextStore, right after
\* construction from an existing file and after every append, the stored
\* history of every conversation has at most max_entries entries, for every
\* configured max_entries >= 0.
C28_HistoryWithinMax ==
    StoreRunning =>
        \A c \in DOMAIN _data : Len(_data[c]) <= _max_entries

----------------------------------------------------------------------------
(* Properties of ContextStore under concurrent calls, checked under       *)
(* SpecShared.  Every append call stamps its entries with its own time, so  *)
(* the entries of different calls differ.                                   *)

\* What the trim leaves of history h: its last max_entries entries (all of
\* them when max_entries is 0, for which the trim deletes nothing).
KeptOf(h) == IF _max_entries >= 1 THEN LastN(h, _max_entries) ELSE h

\* The positions of h at which one append call's entries end.
CallEnds(h) ==
    {0} \cup {b \in DOMAIN h : b = Len(h) \/ h[b].timestamp # h[b + 1].timestamp}

\* C29: under any interleaving of append and get_recent calls of several
\* threads on one ContextStore the outcome is that of some sequential order
\* of the calls: whenever no call is inside the lock each history is the
\* trimmed sequence of all entries appended so far, the entries of one call
\* contiguous and in order; a file persisted by the latest append holds the
\* histories as they are in memory; and get_recent returns the tail of a
\* history as it stood between two append calls, trimmed, never one that is
\* extended but not yet trimmed.
C29_CallsSerialised ==
    /\ _lock = 0 =>
          /\ DOMAIN _data = DOMAIN appended
          /\ \A c \in DOMAIN appended : _data[c] = KeptOf(appended[c])
          /\ last_append = "persisted" =>
                /\ ~_load(file, wall).raised
                /\ _load(file, wall).data = _data
    /\ \A c \in DOMAIN _data : \A i, j \in DOMAIN _data[c] :
          i < j /\ _data[c][i].timestamp = _data[c][j].timestamp =>
              /\ \A k \in i..j : _data[c][k].timestamp = _data[c][i].timestamp
              /\ _data[c][i].kr # 0
              /\ _data[c][j].en # 0
    /\ recent # NoRecent /\ recent.conv # "" =>
          \E b \in CallEnds(HistoryOf(appended, recent.conv)) :
              recent.result =
                  LastN(KeptOf(SubSeq(HistoryOf(appended, recent.conv), 1, b)),
                        EffectiveLimit(recent.limit, _max_context_return))

\* One thread holds the lock with its history extended beyond max_entries
\* and not yet trimmed, while the other waits at the lock to read more
\* entries of the same conversation than max_entries.
C29_Witness ==
    /\ phase = "shared"
    /\ _max_entries >= 1
    /\ \E t, u \in Clients :
          /\ pc[t] = "ap_trim"
          /\ pc[u] = "gr_lock"
          /\ _lock = t
          /\ frame[u].conv = frame[t].conv
          /\ frame[u].limit > _max_entries
          /\ Len(_data[frame[t].conv]) > _max_entries

----------------------------------------------------------------------------
(* Properties of _respect_rate_limit, checked under SpecRate.              *)

\* The threads inside the check-sleep-record section (lines 116-122).
InCriticalSection == {t \in DOMAIN pc : pc[t] \in {"rl_check", "rl_sleep", "rl_record"}}

\* C7: for any number of threads calling _respect_rate_limit and any
\* interleaving, the check-sleep-record section is executed by at most one
\* thread at a time (the lock is held across the sleep), the timestamps
\* recorded in _last_api_call by any two acquisitions differ by at least
\* MIN_SECONDS_BETWEEN_CALLS, and the recorded timestamp never decreases.
C7_RateLimiterSerialised ==
    /\ Cardinality(InCriticalSection) <= 1
    /\ \A t \in InCriticalSection : lock = t
    /\ \A i, j \in DOMAIN stamps :
          i < j => stamps[j] - stamps[i] >= MIN_SECONDS_BETWEEN_CALLS
    /\ \A i \in DOMAIN stamps : stamps[i] >= 0
    /\ _last_api_call = (IF stamps = <<>> THEN 0 ELSE stamps[Len(stamps)])

\* Three acquisitions have been recorded, a thread sleeps inside the
\* section and another one waits for the lock.
C7_Witness ==
    /\ Len(stamps) >= 3
    /\ \E t, u \in DOMAIN pc :
          /\ t # u
          /\ pc[t] = "rl_sleep"
          /\ lock = t
          /\ pc[u] = "rl_lock"

----------------------------------------------------------------------------
(* Properties of group_words, checked under SpecGroup.                     *)

\* Where the word indices of gs stand: <<group, position in its word_idx>>.
IndexPositions(gs) ==
    UNION {{<<k, i>> : i \in DOMAIN gs[k].word_idx} : k \in DOMAIN gs}

\* The word_idx lists of gs partition 0..n-1.
IsPartition(gs, n) ==
    /\ \A k \in DOMAIN gs : gs[k].word_idx # <<>>
    /\ \A p \in IndexPositions(gs) : gs[p[1]].word_idx[p[2]] \in 0..(n - 1)
    /\ \A w \in 0..(n - 1) :
          Cardinality({p \in IndexPositions(gs) : gs[p[1]].word_idx[p[2]] = w}) = 1

\* C3: for every non-empty word list, the word_idx lists of the groups
\* returned by group_words partition the index set 0..n-1 (every index in
\* exactly one group, no group empty, no index twice); this holds after the
\* connected-components pass and is preserved by every step of the merge
\* pass.
C3_WordIndexPartition ==
    /\ phase = "merging" =>
          /\ IsPartition(clusters, Len(words))
          /\ IsPartition(merged \o pending, Len(words))
    /\ phase = "grouped" /\ words # <<>> =>
          /\ IsPartition(clusters, Len(words))
          /\ IsPartition(result, Len(words))

\* group_words returned at least two groups after the merge pass fused
\* clusters of the first pass.
C3_Witness ==
    /\ phase = "grouped"
    /\ Len(words) = MaxWords
    /\ Len(result) >= 2
    /\ Len(result) < Len(clusters)
    /\ \E k \in DOMAIN clusters : Len(clusters[k].word_idx) >= 2

\* Words are numbered 1..n here; word_idx holds the code's indices i - 1.
WordCenter2(i) == BoxCenter2(_polygon_to_box(words[i].poly))

\* The centers of words i and j are at most 1.4 * median(heights) apart
\* (doubled centers, twice the median: 100 * d^2 <= 196 * med2^2).
CentersWithinRadius(i, j) ==
    LET a == WordCenter2(i)
        b == WordCenter2(j)
        med2 == HeightMed2(words)
    IN 100 * ((a[1] - b[1]) * (a[1] - b[1]) + (a[2] - b[2]) * (a[2] - b[2]))
          <= 196 * med2 * med2

\* The words that a chain of within-radius pairs links to the words of S.
RECURSIVE ChainClosure(_)
ChainClosure(S) ==
    LET T == S \cup {j \in DOMAIN words : \E i \in S : CentersWithinRadius(i, j)}
    IN IF T = S THEN S ELSE ChainClosure(T)

ChainConnected(i, j) == j \in ChainClosure({i})

SameGroup(gs, i, j) ==
    \E k \in DOMAIN gs : {i - 1, j - 1} \subseteq Range(gs[k].word_idx)

\* The first-pass cluster of word i.
ClusterOf(i) == CHOOSE k \in DOMAIN clusters : (i - 1) \in Range(clusters[k].word_idx)

FirstPassDone == phase \in {"merging", "grouped"} /\ words # <<>>

\* C12: two words whose centers are at most the radius 1.4 * median(box
\* heights) apart, and two words linked by a chain of such pairs, are in the
\* same group in the output of group_words; the merge pass never separates
\* them.
C12_ChainedWordsShareGroup ==
    \A i, j \in DOMAIN words :
        ChainConnected(i, j) =>
            /\ FirstPassDone => SameGroup(clusters, i, j)
            /\ phase = "merging" => SameGroup(merged \o pending, i, j)
            /\ phase = "grouped" => SameGroup(result, i, j)

\* group_words returned after a merge pass that fused clusters, for words
\* among which two are linked by a chain only.
C12_Witness ==
    /\ phase = "grouped"
    /\ Len(result) < Len(clusters)
    /\ \E i, j \in DOMAIN words :
          /\ ChainConnected(i, j)
          /\ ~CentersWithinRadius(i, j)

\* C13 as claimed: two words that are more than the radius apart and not
\* chain-connected are never in the same group in the output of
\* group_words; a word with no other word within radius yields a group
\* whose word_idx contains only that word.
C13_UnchainedWordsApart ==
    phase = "grouped" =>
        \A i, j \in DOMAIN words : SameGroup(result, i, j) => ChainConnected(i, j)

\* C13, amended: two words that are more than the radius apart and not
\* chain-connected are never in the same cluster of the
\* connected-components pass, and a word with no other word within radius
\* is a cluster of its own; in the output of group_words such words share a
\* group only when the merge pass fused their clusters, which it does only
\* for clusters of the same orientation, and not at all when no two
\* clusters of the same orientation have bounding boxes within
\* max(12, 0.6 * radius) of each other.
C13_UnchainedWordsShareNoCluster ==
    FirstPassDone =>
        /\ \A i, j \in DOMAIN words : SameGroup(clusters, i, j) => ChainConnected(i, j)
        /\ phase = "grouped" =>
              /\ \A i, j \in DOMAIN words :
                    SameGroup(result, i, j) =>
                        clusters[ClusterOf(i)].orientation = clusters[ClusterOf(j)].orientation
              /\ (\A a, b \in DOMAIN clusters :
                      a # b =>
                        ~(/\ clusters[a].orientation = clusters[b].orientation
                          /\ _boxes_close(clusters[a].bbox, clusters[b].bbox,
                                          Proximity100(height_med2))))
                    => \A i, j \in DOMAIN words :
                          SameGroup(result, i, j) => SameGroup(clusters, i, j)

\* group_words returned a group that holds two words no chain links, next
\* to clusters of both orientations.
C13_Witness ==
    /\ phase = "grouped"
    /\ \E i, j \in DOMAIN words : SameGroup(result, i, j) /\ ~ChainConnected(i, j)
    /\ \E a, b \in DOMAIN clusters : clusters[a].orientation # clusters[b].orientation

\* The first-pass clusters whose words all belong to group g.
Constituents(g) ==
    {k \in DOMAIN clusters : Range(clusters[k].word_idx) \subseteq Range(g.word_idx)}

\* The groups the merge pass holds at this point: the accumulator while it
\* runs, the returned list afterwards.
CurrentGroups == IF phase = "merging" THEN merged ELSE result

\* C21: every first-pass cluster that was fused into a group has the
\* orientation of that group, during the merge pass and in the output of
\* group_words: an accumulator entry has the orientation of its first-seen
\* constituent, which no merge changes or recomputes.
C21_OrientationInherited ==
    FirstPassDone =>
        \A r \in DOMAIN CurrentGroups :
            LET g == CurrentGroups[r]
            IN /\ Constituents(g) # {}
               /\ \A k \in Constituents(g) : clusters[k].orientation = g.orientation

\* group_words returned a group fused from two vertical clusters that lie
\* side by side, so that the fused group's own centers vary more in x than
\* in y.
C21_Witness ==
    /\ phase = "grouped"
    /\ \E r \in DOMAIN result :
          LET g == result[r]
              cs == [k \in DOMAIN g.word_idx |-> WordCenter2(g.word_idx[k] + 1)]
              xs == [k \in DOMAIN cs |-> cs[k][1]]
              ys == [k \in DOMAIN cs |-> cs[k][2]]
          IN /\ Cardinality(Constituents(g)) >= 2
             /\ g.orientation = "vertical"
             /\ \A i \in DOMAIN xs : \E j \in DOMAIN xs :
                   (xs[i] - xs[j]) * (xs[i] - xs[j]) > (ys[i] - ys[j]) * (ys[i] - ys[j])

\* The box of word i (1-based), as (x0, y0, x1, y1).
WordBox(i) == _polygon_to_box(words[i].poly)

\* The tightest axis-aligned box around the words of group g.
TightBox(g) ==
    LET m == {i + 1 : i \in Range(g.word_idx)}
    IN <<SetMin({WordBox(i)[1] : i \in m}), SetMin({WordBox(i)[2] : i \in m}),
         SetMax({WordBox(i)[3] : i \in m}), SetMax({WordBox(i)[4] : i \in m})>>

BoxIsTight(g) ==
    /\ g.bbox = TightBox(g)
    /\ g.bbox[1] <= g.bbox[3]
    /\ g.bbox[2] <= g.bbox[4]

\* C22: at cluster creation and after every merge step each group's bbox is
\* the tightest axis-aligned box enclosing the boxes of all its current
\* member words, with x0 <= x1 and y0 <= y1.
C22_BoxTight ==
    FirstPassDone =>
        /\ \A k \in DOMAIN clusters : BoxIsTight(clusters[k])
        /\ \A k \in DOMAIN merged : BoxIsTight(merged[k])
        /\ \A k \in DOMAIN result : BoxIsTight(result[k])

\* A merge step grew an accumulator entry's box beyond the box of each of
\* its constituents.
C22_Witness ==
    /\ phase = "merging"
    /\ \E r \in DOMAIN merged :
          /\ Cardinality(Constituents(merged[r])) >= 2
          /\ \A k \in Constituents(merged[r]) : clusters[k].bbox # merged[r].bbox

\* Gap between the intervals [a0, a1] and [b0, b1]; 0 when they overlap.
IntervalGap(a0, a1, b0, b1) == Max2(0, Max2(b0 - a1, a0 - b1))

\* Squared gap distance between two boxes.
GapSquared(a, b) ==
    LET gx == IntervalGap(a[1], a[3], b[1], b[3])
        gy == IntervalGap(a[2], a[4], b[2], b[4])
    IN gx * gx + gy * gy

\* The boxes overlap on both axes, or their gap distance is at most
\* max(12, 0.6 * radius), radius = 1.4 * median height = 0.7 * height_med2.
BoxesNear(a, b) ==
    \/ GapSquared(a, b) = 0
    \/ /\ 42 * height_med2 <= 1200
       /\ GapSquared(a, b) <= 144
    \/ /\ 42 * height_med2 > 1200
       /\ 10000 * GapSquared(a, b) <= 42 * 42 * height_med2 * height_med2

\* The accumulator entries cluster g may be fused into.
Qualifying(g) ==
    {k \in DOMAIN merged :
        merged[k].orientation = g.orientation /\ BoxesNear(merged[k].bbox, g.bbox)}

\* C23: the merge pass visits the clusters in ascending (bbox.y0, bbox.x0)
\* order and is first-fit: each cluster is fused into the earliest
\* accumulator entry of the same orientation whose current bbox is close,
\* and into that entry only; if no entry qualifies the cluster is appended
\* as a new entry.
C23_FirstFit ==
    /\ [](phase = "merging" =>
            /\ \A i, j \in DOMAIN pending :
                  i < j => \/ pending[i].bbox[2] < pending[j].bbox[2]
                           \/ /\ pending[i].bbox[2] = pending[j].bbox[2]
                              /\ pending[i].bbox[1] <= pending[j].bbox[1]
            /\ merged = <<>> =>
                  /\ Len(pending) = Len(clusters)
                  /\ \A k \in DOMAIN clusters : \E i \in DOMAIN pending :
                        pending[i] = clusters[k])
    /\ [][phase = "merging" /\ pending # <<>> =>
            LET g == Head(pending)
            IN /\ pending' = Tail(pending)
               /\ IF Qualifying(g) = {}
                  THEN merged' = Append(merged, g)
                  ELSE LET k == SetMin(Qualifying(g))
                       IN /\ Len(merged') = Len(merged)
                          /\ \A j \in DOMAIN merged : j # k => merged'[j] = merged[j]
                          /\ merged'[k].word_idx = merged[k].word_idx \o g.word_idx
                          /\ merged'[k].orientation = merged[k].orientation]_vars

\* The merge pass has placed clusters and now visits one that two
\* accumulator entries qualify for, the later of which is strictly closer.
C23_Witness ==
    /\ phase = "merging"
    /\ pending # <<>>
    /\ LET g == Head(pending)
           first == SetMin(Qualifying(g))
       IN /\ Cardinality(Qualifying(g)) >= 2
          /\ \E k \in Qualifying(g) :
                /\ k > first
                /\ GapSquared(merged[k].bbox, g.bbox) < GapSquared(merged[first].bbox, g.bbox)

\* C24: for every input, including inputs that form a single cluster, the
\* groups returned by group_words have the ids g_0, g_1, ..., g_{n-1} in
\* output-list order, and each group's word_idx is duplicate-free and sorted
\* ascending.
C24_IdsAndSortedIndices ==
    phase = "grouped" =>
        \A r \in DOMAIN result :
            /\ result[r].id = r - 1
            /\ \A i, j \in DOMAIN result[r].word_idx :
                  i < j => result[r].word_idx[i] < result[r].word_idx[j]

\* Group a of gs and group b of hs hold the same words and have the same
\* bbox and orientation.
SameGroupData(a, b) ==
    /\ Range(a.word_idx) = Range(b.word_idx)
    /\ a.bbox = b.bbox
    /\ a.orientation = b.orientation

\* No two of the clusters handed to the merge pass are close.
NoTwoClustersNear ==
    \A a, b \in DOMAIN clusters : a # b => ~BoxesNear(clusters[a].bbox, clusters[b].bbox)

\* C26: _merge_adjacent_groups applied to groups no two of which are close
\* performs no merge: the result has the same number of groups, with the
\* same word-index partition, bboxes and orientations; only ids and list
\* order may differ.
C26_NoMergeWhenApart ==
    phase = "grouped" /\ words # <<>> /\ NoTwoClustersNear =>
        /\ Len(result) = Len(clusters)
        /\ \A k \in DOMAIN clusters : \E r \in DOMAIN result :
              SameGroupData(clusters[k], result[r])
        /\ \A r \in DOMAIN result : \E k \in DOMAIN clusters :
              SameGroupData(clusters[k], result[r])

\* The merge pass ran on three clusters or more, no two of them close, and
\* returned them in another order than it was given.
C26_Witness ==
    /\ phase = "grouped"
    /\ Len(clusters) >= 3
    /\ NoTwoClustersNear
    /\ \E k \in DOMAIN clusters : ~SameGroupData(clusters[k], result[k])

\* Sum over all pairs of members of the squared difference of one
\* coordinate (c = 1: x, c = 2: y) of their centers: n^2 times twice the
\* population variance, for a cluster of n words.
PairSpread(g, c) ==
    LET m == DOMAIN g.word_idx
        d(i, j) == WordCenter2(g.word_idx[i] + 1)[c] - WordCenter2(g.word_idx[j] + 1)[c]
    IN SumSeq([i \in m |-> SumSeq([j \in m |-> d(i, j) * d(i, j)])])

\* C27: a first-pass cluster is vertical exactly when the population
\* variance of its members' center y-coordinates is strictly greater than
\* 1.3 times the variance of their x-coordinates, and horizontal otherwise;
\* so a single-word cluster and a cluster of equal variances are horizontal.
C27_OrientationRule ==
    FirstPassDone =>
        \A k \in DOMAIN clusters :
            /\ clusters[k].orientation \in {"vertical", "horizontal"}
            /\ clusters[k].orientation = "vertical" <=>
                  10 * PairSpread(clusters[k], 2) > 13 * PairSpread(clusters[k], 1)
            /\ Len(clusters[k].word_idx) = 1 => clusters[k].orientation = "horizontal"

\* The first pass made a stack of vertically aligned words, classified
\* vertical, and a row of horizontally aligned words, classified horizontal.
C27_Witness ==
    /\ FirstPassDone
    /\ \E k \in DOMAIN clusters :
          /\ clusters[k].orientation = "vertical"
          /\ PairSpread(clusters[k], 1) = 0
          /\ PairSpread(clusters[k], 2) > 0
    /\ \E k \in DOMAIN clusters :
          /\ clusters[k].orientation = "horizontal"
          /\ PairSpread(clusters[k], 1) > 0
          /\ PairSpread(clusters[k], 2) = 0

\* C30: in the list returned by group_words no two distinct groups with the
\* same orientation have bounding boxes that are close, so that running
\* _merge_adjacent_groups again on it would fuse nothing.
C30_MergeFixedPoint ==
    phase = "grouped" =>
        \A a, b \in DOMAIN result :
            a # b /\ result[a].orientation = result[b].orientation =>
                ~BoxesNear(result[a].bbox, result[b].bbox)

----------------------------------------------------------------------------
(* C9: concatenating the group lists of the batches yielded by             *)
(* _batched_groups, in emission order, reproduces the input sequence       *)
(* exactly, and in every batch the i-th payload entry is the {id, source   *)
(* text} entry of the i-th group of that batch.                            *)
C9_BatchesReproduceInput ==
    phase = "planned" =>
        /\ Flatten([b \in DOMAIN batches |-> batches[b].groups]) = groups_list
        /\ \A b \in DOMAIN batches :
              /\ Len(batches[b].payload) = Len(batches[b].groups)
              /\ \A i \in DOMAIN batches[b].groups :
                    /\ batches[b].payload[i].id = batches[b].groups[i].id
                    /\ batches[b].payload[i].kr = KrText(batches[b].groups[i])

C9_Witness ==
    /\ phase = "planned"
    /\ Len(batches) >= 3
    /\ \E b \in DOMAIN batches : Len(batches[b].groups) >= 2

\* C10 as claimed: every batch is non-empty, has at most
\* MAX_ITEMS_PER_REQUEST items, and the serialized payload sent for it does
\* not exceed MAX_JSON_CHARS_PER_REQUEST bytes unless it has exactly one item.
C10_SentPayloadWithinCap ==
    phase = "planned" =>
        \A b \in DOMAIN batches :
            /\ batches[b].payload # <<>>
            /\ Len(batches[b].payload) <= MAX_ITEMS_PER_REQUEST
            /\ \/ Len(batches[b].payload) = 1
               \/ SentPayloadBytes(batches[b].payload) <= MAX_JSON_CHARS_PER_REQUEST

====
